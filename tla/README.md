# LikeOS-NG in TLA+

TLA+ specifications of the LikeOS-NG kernel (32-bit x86, PAE paging, one CPU,
no user mode), the TLC configurations that check them on small instances, and
proofs, for instances of every size, about every component.  Paths below are relative to the repository
(`src/memory/pmm.c`, `include/...`); the fields `source` of `PROJECT.json` have one more `src/` in front.

    tlc -config PmmContract.cfg MCPmm        a run (its module is in PROJECT.json)
    tlapm PmmProofs.tla                      the proofs about Pmm (see section 6)

## 1. Inventory

`kernel_main` (`src/kernel/kernel.c`) runs every initialisation once, with
interrupts off, enables interrupts (line 50), prints one more line and halts.
Everything after that happens in interrupt handlers, and the only handler that
does anything is the keyboard's.  There is no scheduler, no second CPU, no
persistent state; nothing is locked.

| component | state | operations | interacts with |
|---|---|---|---|
| physical memory manager, `pmm.c` | `pmm_bitmap` (in the memory it manages), `pmm_free_page_count`, `pmm_last_allocated`, `pmm_initialized`, region table | `pmm_init`, `pmm_alloc_page(s)`, `pmm_free_page(s)`, `pmm_reserve_region`, `pmm_mark_available`, statistics | shares memory with the free list |
| free list allocator, `paging.c:119-214` | `free_list_head`, the links in the free pages, `next_free_page`, two counters | `init_free_list`, `allocate_from_free_list`, `add_to_free_list`, `get_memory_stats` | page tables come from it |
| PAE paging, `paging.c:216-379` | PDPT, directories, tables, TLB, CR3 | `paging_init`, `setup_identity_mapping`, `setup_kernel_heap`, `enable_pae_paging`, `map_page`, `unmap_page`, `get_physical_addr` | free list; `vga.c` maps the frame buffer |
| A20 gate, `paging.c:28-116` | the gate, two probe addresses | test through the alias, keyboard controller method, fast method | keyboard controller |
| text console, `kprintf.c:13-90, 252-` | `kprint_x`, `kprint_y`, video memory, cursor registers | `kputchar`, `scroll_screen`, `update_hardware_cursor`, `kclear_screen`, `kset_cursor_position` | called by main and by the keyboard handler |
| formatted output, `kprintf.c:90-250` | the place in the format, the arguments left | `kprintf`, number conversion | console |
| interrupt delivery, `idt.c`, `isr.asm` | request and service registers of two 8259s, interrupt flag, stack | stubs, `irq_common_stub`, `pic_send_eoi`, `pic_remap` | keyboard driver, mode switch |
| interrupt masks and gates, `idt.c` | IDT, mask and initialisation registers | `pic_remap`, `irq_set_mask`, `irq_clear_mask`, `idt_install`, `irq_install` | interrupt delivery |
| exceptions and panic, `idt.c`, `isr.asm` | the frame on the stack | `isr_common_stub`, `kernel_panic`, `show_register_dump` | every component can end there; prints with `kprintf` |
| keyboard driver, `keyboard.c` | shift, caps lock, Alt, `vesa_mode_active` | `keyboard_handler` | console, mode switch |
| display mode switching, `vga.c`, `vesa_bios.asm` | adapter mode, found mode, mode information buffer, frame buffer address, `current_mode` | two excursions to real mode, drawing | BIOS (external), paging |
| timing, `timing.c` | calibrated frequency | busy waits | time stamp counter |
| boot loader, entry, build | none kept | | |

What is hard here:

* **Two allocators, one memory.**  `pmm.c` and `paging.c` are configured
  separately for ranges that start at the same address.
* **Data inside the data it manages.**  The bitmap is in the bitmap's own
  range; the links of the free list are in the free pages; page tables are
  ordinary pages that must be reachable through themselves.
* **An interrupt handler that prints.**  `kputchar` is not reentrant and is
  entered from the handler at any instruction of main.
* **A mode switch inside an interrupt handler,** which turns interrupts on in
  real mode, before the handler's EOI, at vectors that are not the BIOS's.
* **A boot that shares the keyboard controller with the keyboard.**  Interrupts
  are off, but keys are not: their codes land in the buffer the A20 code reads,
  and their requests in controllers that are about to be initialised.
* **A report that can be interrupted:** a non-maskable interrupt starts a second
  one in the middle of the first, on the same stack and screen.
* **Results that get lost** between assembly and C (`popad`).
* **Arithmetic edges:** wrap of the next-fit search, wrap of counters, edges of
  the screen, truncation of 36-bit addresses and 64-bit flags.

What makes each component correct is listed with its module in section 3; all
hazards, at their lines, with the properties that cover them, are in
`PROJECT.json`.

## 2. How the modules fit together

    FrameAllocator   <--implements--   Pmm      <-- MCPmm
          ^------------implements---   FreeList <-- MCFreeList
    PhysMem = INSTANCE Pmm + INSTANCE FreeList over the same pages
    Paging           (the allocator as a list of frames; FreeList has its links)
    Console <-- ConsoleText          (one printer, compared with the text printed)
       ^------- MCConsole            (main and the interrupt, access by access)
    Vga <-- Keyboard <-- MCKeyboard  (Alt+G makes the excursions)
    Pic <-- Kbc <-- A20 <---+
             ^----- Irq <---+-- Boot <-- MCBoot
                                     (the boot, then nested handlers)
    Format <-- Panic <-- MCPanic     (kprintf, and the reports printed with it)

The proofs about a module M are in MProofs; those about ConsoleText are the
second part of ConsoleProofs, PanicProofs begins with Format's, BootProofs also proves what it needs of Pic, Kbc,
A20 and Irq, KeyboardProofs of Vga, and ProofLemmas has the arithmetic, the
facts about finite sets, and the induction and recursion that several of them
use.

Every module takes its sizes as CONSTANTS with named assumptions.  An action is
one call of one function, except in Console, where it is one memory or port
access, in Pic, Kbc and A20, where it is one port access, in Irq, where it is one
stage of a handler, and in Format, where it is one directive.  Variables have the
names of the C globals.  History variables (`owned`, `reserved`, `inuse`,
`misused`, `asked`, `first`, `split`, `bios_ok`, `held` and `shared` of Keyboard,
`wanted`, `early`, `deaf`, `stolen`, `call`, `fault`, ConsoleText's) are
marked as such and never guard an action of the code (`held` guards the
keyboard's: a key comes up that was down).  Definitions marked
"mutant" are wrong variants of the definition after them; each property is
known to fail when one of them is put in its place.

## 3. The modules

### FrameAllocator
What a frame allocator promises: a frame is available, owned or withheld; runs
of available frames move to owners; only owners' frames return; the reported
count is the number available.  Both allocators implement it.

### Pmm (`src/memory/pmm.c`)
`pmm_bitmap` is the set of pages whose bit is set; page 0 is the first page of
the managed range, which also stores the bitmap.  `pmm_find_free_pages` is
given declaratively (the first step of the scan whose last n pages were all
free); `FindLoop` is the loop of the code, a recursive function of the number of
pages looked at, and `LoopFindsRun` says that they agree.  `pmm_alloc_pages` includes the zeroing of the block, which clears bits
when the block holds bits of the bitmap.  Sums of `uint32_t` are taken modulo
`Word` where they can wrap.  `owned` and `reserved` remember what callers hold.

`Next` has callers that keep to the interface: they free what they own, reserve
whole pages that are not in use, and give back only what is not in use.
`AnyNext` has callers that respect only the types.

| property | says |
|---|---|
| `CountExact` | the running count never drifts from the bitmap |
| `BitmapAccounts` | every set bit has exactly one reason; no page has two owners |
| `BlockNeverWraps` | although the scan does not restart its run at the wrap, no block runs past the end |
| `SinglePageAlwaysFound` | a single page is found whenever the count is positive |
| `MissesOnlyAcrossStart` | a search fails only if every long enough run straddles its starting point |
| `LoopFindsRun` | the loop computes the declarative definition |
| `FrameSpec` | refinement of FrameAllocator |

`MissesOnlyAcrossStart` is as much as can be said: the search does miss a free
run that its starting point cuts in two, and then answers "Not found"
(`pmm.c:182`) with memory left.

### FreeList (`src/memory/paging.c:119-214`)
`next[f]` is the first word of frame f: the link while f is on the list, the
client's data while a client holds it.  Clients write any word into their
pages, an address where no page is included, and may free a page twice;
`misused` remembers that one did.  After that a page can be handed out and on
the list at once, and the word its client stores is a link.  A link that is no
page (`Wild`) leads the code to a page fault or through memory that belongs to
something else; `astray` remembers that one was followed, and the model stops
there.  `ListIsFreePages` (the chain ends, has no repetition, and is exactly what
nobody holds), `InUseExact` (the difference of the two wrapping counters) and
the refinement hold until a page is freed twice.  `StatsHonest` has two parts:
until then nothing goes astray and `get_memory_stats` prints the number of free
pages; after it, a walk that stays on pages prints the length of the list or says
that it is corrupted.  Of a walk that strays nothing is promised.

### PhysMem
The two allocators over the memory they share, initialised in the order of
`kernel_main`.  Page p of Pmm is frame p + 1 of FreeList.  Its one property is
the promise of `pmm.c:108`, and it does not hold (section 5).

### Paging
The boot sequence call by call (each `map_page` of a mapping loop is a step),
then `map_page`, `unmap_page`, allocation and freeing by clients in any order.
`mem` holds the entries of the frames used as tables; a frame that comes back
from a client holds entries that look present.  `Walk` is the processor's walk;
the TLB may cache any present translation at any time (`TlbFill`); `Accessible`
says whether the kernel reaches a frame through the identity map, and
`PageFault` is the panic when it does not.

| property | says |
|---|---|
| `TablesOwnTheirFrames` | every frame drawn from the pool is exactly one of: PDPT, a table in use, on the free list once, a client's; nothing is shared and nothing leaks |
| `TranslationExact` | the walk of every page gives the frame and the flags of the low word last asked for it, and `get_physical_addr` the frame, below 4 GB |
| `TlbCoherent` | no cached translation outlives its entry |
| `UserReachExact` | user mode reaches a page as it was mapped if the first page ever mapped through its table was for user mode, and else not at all |
| `FaultOnlyBeyondIdentity` | the kernel faults on its tables only with the list empty and the pool past the identity map |
| `NxKept` (run `PagingNx`) | a page mapped with PAGE_NX is not executable: violated, section 5 |

Two of these are the exact extent of claims the repository's README.md makes
more broadly: `get_physical_addr` masks bits 32 and up (`paging.c:339`, against
"64GB memory addressing capability"), and the pool grows out of the identity map
(`paging.c:149`, against "automatic expansion").  PAGE_NX, the one flag of the
high word, has a property of its own, which does not hold.

### Console, ConsoleText (`src/lib/kprintf.c`)
Every read and write of `kprint_x`, `kprint_y`, every store to video memory and
every port write of `kputchar` is a step; `reg` is the register in which the
unoptimised build keeps a value between two of them.  "main" prints the end of
"System ready.\n"; the keyboard handler starts at any step of main and runs to
its end.  `CursorRecovers`: whatever the interleaving, both coordinates are on
the screen when nobody prints.  `CursorSyncedUnlessSplit`: the hardware cursor
then shows them too, unless the interrupt came between main's read of
`kprint_y` for the cursor and its last port write (`split`); no other
interleaving does harm, and the next character repairs that one.  A character
can be stored one line below the screen between `kprint_y++` and the scroll, so
`NeverOffScreen` is part of ConsoleText's property only.

ConsoleText has one printer that nobody interrupts and the history of the text
it printed, as rows: `ScreenShowsText` says that the screen is the window of
the last rows, both cursors included, through wrapping, line feeds, scrolling
line by line, backspaces over line ends, clears, and calls of
`kset_cursor_position` with coordinates on and off the screen.

### Vga, Keyboard (`vga.c`, `vesa_bios.asm`, `keyboard.c`)
A mode stands for its number, geometry and frame buffer.  The BIOS is external:
in every excursion it may fail to answer, know any subset of the modes, and
refuse to set one (`BiosAnswers`).  `result` is what the caller of the
excursion finds in EAX after `popad`, which is what it held before.
`BytesMapped` and `BytesStored` are the sizes of `vga_clear_screen_`, computed
as there, that is from width, height and depth.  What they are compared with has
the pitch of the mode too, which the adapter may make longer than a line of
pixels and which the driver declares how to ask for (`vesa_get_pitch`,
`vga.c:16`) and never does.

Keyboard adds the modifiers and Alt+G.  The keyboard sends scan codes, one or
more for each press, repeat and release, and `keyboard_handler` takes them one
by one.  Keys that were added to the PC keyboard later send the prefix 0xE0 and
the code of an older key, which is what the handler takes it for; print screen
wraps its code in shift codes of its own unless a shift is down.

| property | says |
|---|---|
| `ModifiersTrackKeys` | a modifier's flag is set exactly while a key that sends its codes is down, until two such keys have been down together |
| `NothingSticks` | however they overlapped, no flag stays set when all keys are up |
| `TypedAsHeld` | the case of a letter follows shift and caps lock, and nothing is printed under Alt |
| `FlagMatchesDisplay` | the driver's idea of the display is the adapter's, as long as the BIOS does what it is asked |
| `DrawsIntoItsMode` | a mode that was set is drawn with its own address and geometry, whatever failed before |
| `FillExact` | the fill stays within the pages mapped and ends before the screen does by exactly the padding between its lines, so a mode without padding is filled whole, and of one with padding the end keeps what it held (section 5); a 24-bit mode would be filled by a third too far: no path sets one |

### Pic, Kbc, A20, Irq, Boot (`paging.c:28-116`, `idt.c`, `isr.asm`, `vesa_bios.asm`, `kernel.c`)
The hardware is external: Pic has the two 8259s with their request, service,
mask and initialisation registers and their priorities, Kbc the 8042 with one
byte of input, one of output, and the output port with the A20 gate and the
reset line.  Around them is the code: `irq_install` write by write, the masks
and the end of interrupt in Pic; `enable_a20_gate`, access by access, in A20;
the gates, stubs, handlers and the excursion in Irq, with the stack of handlers,
each in its body, in real mode, back and drawing, about to send the EOI, or
about to return.  In real mode interrupts reach the BIOS, which acknowledges
them or does not (`lost` counts the latter).  A request may be withdrawn just
before it is acknowledged, which the master answers with line 7 (`Spurious`).
Boot runs these parts in the order of `kernel_main`, keys being pressed and the
8042 taking bytes at any time.

| property | says |
|---|---|
| `A20Outcome` | success is reported exactly when the gate is open; the word above 1 MB survives the tests, the word at 0x012345 only if the gate stayed closed |
| `BootCompletes` | no busy wait is for ever: interrupts are enabled, or the machine was reset |
| `QuietBootIsSafe` | without a key pressed before the first initialisation word the machine is never reset, and no code is left unread in the buffer with its edge gone |
| `PicAsAsked` | after `irq_install` the masks are the BIOS's with the changes asked for, and every interrupt is handled as the line it came from |
| `EoisBalance` | the lines in service are those of the handlers before their EOI; each interrupt the BIOS does not acknowledge adds one to the master, for ever |
| `SwitchNotReentered` | the excursion, whose saved state is global, is never entered again inside itself |
| `KeyServed` | every code in the output buffer is eventually read |

The last three have exceptions that the code really has, and that the runs
showed before the properties named them: an EOI for a spurious interrupt ends
the service of whatever it interrupted (`stolen`); an interrupt lost in real
mode leaves the keyboard blocked (`lost`); a key pressed before `pic_remap`
leaves a code in the buffer whose request ICW1 forgets, after which no edge ever
comes (`deaf`).  `QuietBootIsSafe` is the extent of the second hazard of an early
key: its code is read at `paging.c:65` in place of the output port, and written
back to it, where a clear bit 0 resets the machine.

### Format, Panic (`kprintf.c:90-250`, `idt.c`, `idt.h`, `isr.asm`)
Format reads a format, takes arguments, and turns numbers into digits.  A call
that steps over the terminator goes on with whatever lies behind the format
(`kprintf.c:179`, `:94`), and one that stores beyond the digit buffer overwrites
its locals and its frame (`kprintf.c:243`): `past` says which of the two has
happened, and from there on the call is not followed (`Astray`).
`Numeral` is the reference: the digit at each place.  Panic has main printing
arbitrary calls, and exceptions: what the processor pushes, what the stub adds
to make the frames of all vectors alike, `pushad`, the structure `idt.h` lays
over it, and the report as a sequence of calls of `kprintf`.  A non-maskable
interrupt starts another report at any point, in the stub too.

A call is a sequence of directives with the arguments they take
(`Tokens`, for any numbers and widths); one that `kprintf` does not know, or that
the format ends in, may come last, because what follows would read its argument
(`PanicAssumption`).  That arguments match directives is what the calls in the
source observe, but for the two in `UnknownTokens`.

| property | says |
|---|---|
| `PrintedExact` | a call that ends has printed what its directives and arguments mean, each with its own argument and width, and has none that runs past anything; a call that runs past the format or the buffer does so at the first directive that the format ends in or whose width is beyond the buffer, after exactly what comes before it |
| `ReportExact` | at the halt, one report has been printed since the last clear: that of the last exception, with its registers, address and error code (if it has one); ESP and SS are the two words that were on the stack |

## 4. The runs

| run | instance | states | result |
|---|---|---|---|
| `PmmContract` | 8 pages, all page counts 0..9 and 2^32-1, all page addresses and four that are refused, 9 regions | 2 977 | pass |
| `PmmDoubleFree` | 4 pages, any caller | | violation |
| `FreeList` | 4 frames, 2 in the initial pool, counters modulo 6, walks of at most 4; clients store 0, a page, and a word that is none | 3 934 962 | pass |
| `PhysMem` | 6 pages, 4 in the pool | | violation |
| `Paging` | 2 directories x 2 tables x 4 pages, 9 frames in the pool, identity map of 8 | 23 167 | pass |
| `PagingNx` | as Paging | | violation |
| `ConsoleRace` | 2 x 2 screen, main prints 3 characters, the handler any number | 852 707 | pass |
| `ConsoleText` | 2 x 2 screen, 5 rows of text between clears | 169 531 | pass |
| `Keyboard` | all 15 kinds of keys, four listed modes (one of 24 bits, one with padded lines), any BIOS failure | 232 458 | pass |
| `VgaResult` | as Keyboard | | violation |
| `Boot` | timer, keyboard, one slave line; three nested handlers, one lost and one spurious interrupt; three masks of the BIOS | 127 224 | pass |
| `Panic` | words of 8 bits, calls of one or two directives, six vectors, one non-maskable interrupt | 68 634 | pass |

Why the bounds are enough.  *Pmm:* eight pages give every shape of free run
relative to the start of the search and the end of the range, and the counts go
past the range; `Word` (2^28 instead of 2^32, TLC's integers being 32 bits
wide) is far above any address; the proofs do away with the bound.  *FreeList:*
lists of up to four frames, with the pool used up and with frames left, cycles
of every length and lists longer than a walk, counters that wrap at different
moments several times; a client's word that ends the list, one that joins it to a
page drawn or not, and one that leads nowhere (all such words are treated alike).
*Paging:* a table shared by two pages and one of its own, the list
exhausted in the middle of making a table, frames below and above 4 GB (frame
16 is the first above), flags without PRESENT and with NX.  *Console:* every
branch of `kputchar` lies at an edge, and on a 2 x 2 screen every position is at
two edges; cursor bytes hold 0..3 (0..2 in ConsoleText) so that both are used.
*Keyboard:* every entry of the scan code tables behaves as one of the 15 kinds;
the list has a mode that is not wanted before, between and after those that
are.  *Boot:* two master lines and a slave line are all the relations priorities
have; three handlers let a keyboard interrupt nest over one that
has sent its EOI and be interrupted itself (deeper nestings repeat this); lost and spurious interrupts do their harm once; the masks leave
everything open, close the kernel's lines, or close the cascade.  *Panic:* a
second directive shows that the first took its arguments and no more; the
words have the least int, the largest unsigned, one and several digits in each
base, and widths below, at and above the number's digits and the buffer's four;
vectors with and without error code; contexts whose words are all different.

`CHECK_DEADLOCK FALSE` is set for Paging, where a panic is the end, and for
PhysMem, where memory runs out.

Fairness is assumed in Boot only.  `WF(MainStep)`: kernel_main goes on, with
interrupts off, until its `sti`.  `WF(KeyboardController)`: the 8042 takes a byte
that is written to it.  `SF` of a handler's step at each depth: a handler that
is interrupted goes on when the interrupting ones have returned, and devices
request interrupts far more slowly than the processor executes instructions,
so it cannot be interrupted for ever before its next instruction.  `SF` of
delivering each line: a request that is the highest at infinitely many
instruction boundaries with interrupts on is taken at one of them.  Nothing is
assumed of devices (Request), of keys, or of the BIOS.

## 5. What the code does not keep

Each is a run that TLC finds violated; the quotations are in `PROJECT.json`.

* `PmmDoubleFree`: `pmm_free_pages` warns about a page that is already free and
  adds it to the count all the same (`pmm.c:262`).
* `PhysMem`: `paging_init` takes its first 1024 pages from 0x1020000, where
  `pmm_init` has just put its bitmap, and zeroes them (`paging.c:24`).
* `VgaResult`: `popad` discards the result of a mode switch
  (`vesa_bios.asm:340`); going back to text reports a failure.
* `PagingNx`: the flags of `map_page` are 32 bits wide, so a page mapped with
  PAGE_NX is executable (`paging.c:277`), against "NX bit support" (README.md:10).

Seen while reading, stated in the models as they are, without a run of their
own:

* one flag stands for both shift keys, so releasing one clears it while the other
  is held (`keyboard.c:47`), while README.md:124 has "State tracking for modifier
  keys": `ModifiersTrackKeys` holds until two keys that share a flag overlap, and
  not after (`shared`);
* the screen is filled as if its lines had no padding (`vga.c:107`, `vga.c:116`),
  while the comment has "Clear screen immediately" (`vga.c:61`): by `FillExact` a
  mode that pads its lines keeps its end;
* the missed run of the search, and the two limits of paging above;
* after a double free a client's word is followed as a link, by an allocation
  (`paging.c:163`) or by the walk of the statistics (`paging.c:206`), whose guard
  against corruption is for cycles only;
* a format that ends in a directive is read beyond its end (`kprintf.c:179`), and
  a width above 32 overwrites the stack (`kprintf.c:243`); no call in the source
  has either;
* `struct interrupt_frame` has ESP and SS as "Pushed by CPU" (`idt.h:8`), which
  without a change of privilege they are not, and the dump prints the two words
  above the frame for them as registers "at time of exception" (`idt.c:389`,
  `ReportExact`);
* a region that does not start on a page boundary is reserved a page short
  (`pmm.c:274`), and `start_page + count` can wrap (`pmm.c:249`): both outside
  Pmm's contract;
* the hardware cursor is left behind when the interrupt splits an update, while
  README.md:47 has "Hardware cursor synchronization" (`CursorSyncedUnlessSplit`);
  the character stored below the screen (`kprintf.c:81`);
* the A20 test restores one of the two words it overwrites (`A20Outcome`); an
  early key can reset the machine or make the keyboard deaf, and a spurious or
  lost interrupt take an EOI (Boot);
* enabling a line of the slave does not enable the cascade (`idt.c:150`);
* `%llu` (`timing.c:30`) prints itself and `%04u` (`pmm.c:406`) prints nothing,
  and neither takes its argument (`UnknownTokens`);
* the fallback sets mode 0x117 and records 0x118 (`vesa_bios.asm:266`); a 24-bit
  mode would be filled too far (`vga.c:112`);
* "Left Alt" (`keyboard.c:48`) is right Alt too; caps lock toggles with every
  repeat (`keyboard.c:66`);
* the report of a page fault is one line longer than the screen, which was
  cleared "for better visibility of the exception" (`idt.c:184`): the line that
  names the exception scrolls off; in graphics mode no report is visible;
* the real-mode stack (`vesa_bios.asm:144`) grows down into the text of the
  kernel.

## 6. What is proved

All but two of the properties that the passing runs check, among them the
refinement of FrameAllocator by both allocators, and the type invariants. Each component has
one inductive invariant (Panic has three); it is stated in its proof module,
part by part, and holds in TLC's runs of the instances of section 4 too
(`MainInv` but for the type of the arguments, which TLC cannot evaluate). Every
theorem below holds for every value of the constants that the named assumptions
of its module allow.

A leaf that names `SMTT(30)` or `ZenonT(40)` is one whose proof the provers find
in a second or more; it is given that much time so that the proofs do not depend
on the speed of the machine. Where sequences are joined, `PanicProofs` hides the
concatenation behind `Cat` for the same reason: with the operator itself visible
the SMT backend unfolds it, for a long time and to no end.

### PmmProofs, about `Pmm!Spec`

From `PmmAssumption` alone (a range of at least one page that ends below `Word`;
arguments any sets of 32-bit numbers):

    Invariant                  Spec => []IInv
    TypeCorrect, CountIsExact, BitmapAccounted       conjuncts of IInv
    NoBlockWraps               Spec => []BlockNeverWraps
    SinglePageFound            Spec => []SinglePageAlwaysFound
    MissesAcrossStart          Spec => []MissesOnlyAcrossStart
    LoopIsSearch               Spec => []LoopFindsRun
    ImplementsFrameAllocator   Spec => FrameSpec

`IInv` is `TypeOK`, `CountExact`, `BitmapAccounts`, and that nothing is owned or
reserved before `pmm_init`.  `CountExact` is not inductive alone: an allocation
zeroes its block, and if the block held part of the bitmap the bits would be
gone while the count is not.  It cannot, because (`BitmapFits`,
`OwnPagesFacts`) the bitmap of any range fits in its first pages, and
`BitmapAccounts` keeps those marked.  The same fact bounds the search: a run
that wraps would contain page 0 (`FindBlock`).  `AllocEffect` and `FreedBlock`
say what the two main operations do to the bitmap once these are known, one
lemma per operation shows that it keeps `IInv`, and `RefinesStep` maps each
operation to one step of FrameAllocator.

`LoopFindsRun` compares a recursive function with a definition by a least
element, for a range of any length, so it needs induction, and the library's
induction theorems have an operator as a parameter.  ProofLemmas states
induction about a set of numbers instead (`SimpleInduction`, `StrongInduction`:
a subset of Nat closed under successor is Nat), which is enough, and from it
`RecursionExists`: that a function defined by recursion on the numbers exists
and satisfies its equation.  `LoopStepKnows` is then the invariant of the loop:
after k pages it knows the length of the run of free pages that ends there, and
has found nothing yet exactly if no step before k ends a run.

### FreeListProofs, about `FreeList!Spec`

For every number of frames, every initial pool, every width of the counters and
every set of words that clients store, the freeing of a page twice included:

    InvHolds                   Spec => []IInv
    TypeCorrect                Spec => []TypeOK
    ListExact                  Spec => []ListIsFreePages
    CountersExact              Spec => []InUseExact
    StatsAreHonest             Spec => []StatsHonest
    ImplementsFrameAllocator   MaxFrames < Word implies Spec => FrameSpec

What the walk visits says nothing of a step that changes a link in the middle of
it.  `Listed` says instead that there is an order q of the free pages, each
occurring once, linked to the next one and the last to NULL; every operation
gives a new order from the old one (its tail, or one with the page in front).
The order has only free pages in it and clients store only into pages they hold,
so no word of theirs is ever a link, and nothing goes astray, until a page is
freed twice.  For what `StatsHonest` says of the time after that, no invariant is
needed: it is a fact about any chain of links that stays on pages.
That the walk follows the order is then an argument by the least place where it
would not.  `Counting` is `InUseExact` without the walk.  The refinement needs
the hypothesis because FrameAllocator's count is a number and the code's a
`uint32_t`: the machine has at most 2^24 frames.

### PagingProofs, about `Paging!Spec`

For every geometry of the tables, every pool and every choice of pages and
flags:

    InvHolds         Spec => []IInv
    TypeCorrect      Spec => []TypeOK
    FramesOwned      Spec => []TablesOwnTheirFrames
    Translates       Spec => []TranslationExact
    TlbNeverStale    Spec => []TlbCoherent
    UserReaches      Spec => []UserReachExact
    FaultsOnlyThere  Spec => []FaultOnlyBeyondIdentity

`TranslationExact` says nothing of PAGE_NX, which a run refutes. It cannot be
kept without knowing that a store to one table
does not change another: `IInv` says that no two directory entries share a
table, that no table is a directory, and that none is free, drawn twice or a
client's. A store then changes the translation of the one page it is for
(`DivDiv` and the lemmas after it: the three indexes and the page determine
each other). `IdentityKept` says that the identity map stays what
`enable_pae_paging`'s callers built, `BootTables` how many tables the boot has
made: a fault before paging is up is excluded by counting. `PagingAssumption`
has three conditions on the layout that the proofs rest on and that the
source's numbers satisfy: the initial pool holds all tables made at boot (21 of
its 1024 frames), it lies inside the identity map (it ends at page 5152 of
8192), and what clients map (the frame buffer) is outside the pool.

### BootProofs, about `Boot!Spec`

For every set of lines and of masks, every depth of nesting, any number of lost
and spurious interrupts:

    InvHolds         Spec => []IInv
    TypeCorrect      Spec => []TypeOK
    A20Reported      Spec => A20Outcome
    KeysSurviveBoot  Spec => []QuietBootIsSafe
    MasksAsAsked     Spec => []PicAsAsked
    ServiceBalanced  Spec => []EoisBalance
    SwitchAlone      Spec => []SwitchNotReentered

`IInv` has three arguments in it.  `Installing`: how many writes of
`irq_install` have been made determines the initialisation registers, the masks
and the step each controller expects, which is what decides whether the next
write is a mask.  `Quiet`, `Buffers`, `Words`, `Undeaf`: without an early key
the step that `enable_a20_keyboard` has reached determines what the buffers of
the 8042 can hold, hence what is read and written back.  `Served`,
`HandlersInService`: the lines of the handlers before their EOI are in service
and inner ones have higher priority than outer ones, so a non-specific EOI ends
the line of the handler that sends it; two excursions would need the keyboard's
line twice among them.

### KeyboardProofs, about `Keyboard!Spec`

For every set of keys and every list of modes:

    InvHolds            Spec => []IInv
    TypeCorrect         Spec => []TypeOK
    ModifiersTracked    Spec => []ModifiersTrackKeys
    NothingStuck        Spec => []NothingSticks
    TypedAsKeysHeld     Spec => TypedAsHeld
    DisplayFollowed     Spec => []FlagMatchesDisplay
    DrawnWhereShown     Spec => []DrawsIntoItsMode
    FilledExactly       Spec => []FillExact

The flags are right when no code is waiting, and codes are handled one by one:
`FlagsSettle` says that each flag as the waiting codes will leave it is what the
keys call for, and `CodesShape` that one event never queues two codes for one
flag, nor a letter with another code.  `DisplayTracked` relates the found mode,
the buffer, the adapter and the driver's two variables; `FillExact` follows from
it because no path sets a mode of 24 bits, which `VgaAssumption` takes from the
list of `vesa_bios.asm:241` and the geometry the VESA standard gives mode 0x117.
Of the pitch `VgaAssumption` says only that lines do not overlap.

### ConsoleProofs, about `Console!Spec`

For every size of the screen and every key, and for every text of main that has
neither backspaces nor clears (`RaceTexts`):

    InvHolds     RaceTexts implies Spec => []IInv
    TypeCorrect  RaceTexts implies Spec => []TypeOK
    Recovers     RaceTexts implies Spec => []CursorRecovers
    Synced       RaceTexts implies Spec => []CursorSyncedUnlessSplit

`IInv` follows both printers label by label: how far past the edges main may
leave a coordinate between two accesses (one column, one line), how much farther
the interrupt may then go, what each holds in its register (`Storable`,
`Registers`, `Coordinates`), and what of the current position each has sent to
the cursor (`CursorFollows`).  `RaceTexts` is what the code does: after `sti`
main prints "System ready.\n" (`kernel.c:52`), and the keyboard's handler never
clears.  It is needed: a backspace of main that is interrupted between its test
of `kprint_x` and its decrement can store -1.

### ConsoleProofs, about `ConsoleText!TextSpec`

For every size of the screen, every text, backspaces, clears and calls of
`kset_cursor_position` included, and no further hypothesis:

    TextInvHolds  TextSpec => []TextInv
    TextShown     TextSpec => []ScreenShowsText

The history is ahead of the screen: it has the whole effect of a character as
soon as that is printed.  `TextInv` says, label by label, where `kputchar` will
leave the cursor (`Aimed`), and that the screen shows the text already but for
the one cell the character goes to, from one row higher up until the lines are
scrolled (`Pictured`); `CursorSent` is what has been written to the cursor
registers.

### PanicProofs, about `Panic!Spec`

For every width of a word that hexadecimal digits fill, every set of numbers,
widths and calls made of `Tokens`, every vector, every context and any number of
non-maskable interrupts:

    MainInvHolds      Spec => []MainInv
    PrintsExactly     Spec => []PrintedExact
    StackInvHolds     Spec => []StackInv
    ReportInvHolds    Spec => []ReportInv
    ReportsExactly    Spec => []ReportExact

Both rest on the conversions, which are recursive.  `DivisionFindsDigits`, an
induction over the number of places, says that dividing by the base again and
again yields the digit of every place; with it `UnsignedRight`, `SignedRight` and
`HexRight` say that `kprint_unsigned_padded`, `kprint_number_padded` (the lowest
int, whose negation wraps, included) and `print_hex` print the reference
`Numeral`, and `WidthRead` that the width read from a format is the one written
there.

`MainInv` is what holds between two steps of `kprintf`: it has printed the first
k directives of the call, and what is left of the format and of the arguments is
exactly that of the others (`Between`), or it is among the letters of `%llu`
(`Within`).  One lemma per kind of directive shows that a step goes from one to
the next (`TokenPasses`).  A joined format is a fold over the directives, so
`Joined` gives its prefixes by recursion.  `Between` and `Within` also keep that
none of these directives runs past anything (`PastRight`); a call that has run past the
format or the buffer is in the third case, `Lost`: the last directive it began is
the first that does so, and what is printed is what comes before
(`GetsLost`).

`ReportExact` needs two more.  `StackInv`: at each stage the stack holds what
the processor, then the stub, then `pushad` pushed, so that at the report
`Frame` reads each register from its own word, for vectors with and without
error code, and for an interrupt that found the stub's words in place of the
last frame (`FrameRight`).  `ReportInv`: what has been printed, together with the
calls still to be made, is the report of that frame (`Underway`).  What the whole
report contains is found part by part, without running it: `Covers` says of a
list of calls which labels it prints with which text after them, and which of
the few labels that `ReportExact` counts or excludes (`Marks`) it prints at all;
`Once` that it prints the header once.  Both compose (`CoversConcat`,
`OnceConcat`), and no number or message contains a mark.

### Only model-checked

* `BootCompletes`, `KeyServed`: liveness, which rests on fairness, that is on
  ENABLED, and is out of the prover's reach.

The runs that expect a violation need no proof: a counterexample is one.

## 7. Not modelled

Timing: arithmetic on a hardware counter that the kernel only prints; the delays
are not called.  Boot loader and build: straight-line code whose state nobody
reads later.  Within modelled parts: statistics, dumps and the wording of
messages; the attribute bytes of the screen, which are always the same; the
descriptor tables and segment registers of the excursions; line feeds of a
report, so where on the screen it lands.  What the code does after it has
followed a link that is no page (FreeList), or run past a format or a buffer
(Format), is not known and not modelled.  The read of `kprint_x` for a store to
the screen is one step with the store (`Row`, `Store`: `kprintf.c:72-73`): an
interrupt between the two decides only which cell the character lands in, and
`ConsoleRace`'s properties are about the coordinates and the cursor.  Of the
spurious requests there is the master's (line 7); the slave's (line 15) is left
out.  Grey cursor keys, which send shift codes like print screen's when a shift
is held, are not among the keys.  The return of `vga_clear_screen_` when
`map_page` fails (`vga.c:94-97`) is left out: `map_page` fails only without a
directory, and `paging_init` has made them all.  The 8259s are modelled with
edge-triggered lines and fully nested priority, which is what ICW1 and ICW4 ask
for; polling, rotation and the special mask mode are not used by the code.

## 8. Plan

In order, with what each is for:

1. *Unaligned regions* (`pmm.c:274`): Pmm with reservations that start inside a
   page, and what of `BitmapAccounts` is left then.
2. The report of Panic laid out on Console's screen of 25 rows.
