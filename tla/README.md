# Verification of the bilinear scaling accelerator

The repository holds a hardware accelerator that scales greyscale images by
bilinear interpolation (VHDL), a C model of the algorithm, an application for a
Nios II processor that runs both and compares their times, and the board support
package below the application (HAL and drivers). This directory is a TLA+ model
of that system: modules that follow the code operation by operation,
configurations that check them with TLC on small instances, and proofs, checked
by TLAPS, of the properties that matter most for every size and every input.

Paths below are relative to `src/realization/` unless they begin with
`software_model/`; `HAL/` and `drivers/` are in
`software/dvs22_g6_sw_bsp/`.

- [The system](#the-system): components, their state, how they interact, what is hard
- [Modules](#modules): what each module models and how it corresponds to the code
- [Runs](#runs): what TLC checks, under which bounds and which fairness
- [Proofs](#proofs): what is proved for every instance, and how
- [Where the code deviates](#where-the-code-deviates)
- [Limits](#limits): what is only checked, and what is not modelled
- [Plan](#plan)

## The system

```
        JTAG terminal          host file system
             |                        |
     JTAG UART driver            hostfs (external)
             \                       /
              file descriptors (open, read, write, ..., close)
                        |
   reset -> crt0, alt_load, alt_main -> main.c
                        |   loop: input, load, cut a segment, scale twice,
                        |         report the clocks, save, free
             /                        \
 bilinear_scaling_sw            bilinear_scaling_hw
 (loops over the pixels)        descriptor chains, flags, restart bit
                                      |
                          SGDMA driver and interrupt handler
                             /                      \
             sgdma_out  memory -> stream      sgdma_in  stream -> memory
                             \                      /
                       acc_bilinear_scaling around RAM_writer
```

### Components

| Component | State | Operations | Correct when |
|---|---|---|---|
| `RAM_writer` (hardware/RAM_writer.vhd, RAM.vhd) | two row RAMs, write address, *filled* flag and selection, row count, read registers | one clock edge: accept a pixel, close a row, give RAMs back, read | the RAMs always hold consecutive complete rows, and every accepted pixel is stored |
| accelerator (hardware/acc_bilinear_scaling.vhd) | state machine, read counter, output position, input coordinates, pixel group, three pipeline stages, flush and restart flags, parameter registers | one clock edge, register writes | each output pixel is computed from the pixels and weights of the C model; rows are framed; every image completes; a restart leaves nothing behind |
| test bench (hardware/acc_bilinear_scaling_TB.vhd, avs_source.vhd, avs_sink.vhd) | position of source and sink | stream with random gaps and random *ready* | the sink's assertions hold |
| C model (software_model/bilinear_scaling.c, utils.c) | loop counters and accumulated fixed-point coordinates | the two nested loops | reads stay in the image, coordinates do not drift, pixels do not overflow |
| `bilinear_scaling_hw` (software/dvs22_g6_sw/bilinear_scaling_hw.c) | two descriptor chains, output image, parameters of the accelerator | one call | nothing is freed under a running DMA; the image is complete; the call returns |
| SGDMA driver (drivers/src/altera_avalon_sgdma.c) | control, status and descriptor registers, callback, descriptors in memory | construct, transfer with and without waiting, callbacks, start, stop, polling, interrupt | the controller never works on half a descriptor; no transfer is set up under another; no interrupt is lost |
| main (software/dvs22_g6_sw/main.c) | `image_in`, the segment, outputs, number of jobs, heap blocks | the endless loop | nothing is used after it is freed, freed twice or leaked |
| performance counter (drivers/src/altera_avalon_performance_counter.c, perf_print_formatted_report.c) | clocks and starts of each section, in two words | reset, begin, end, report | a report shows the clocks of its job |
| JTAG UART driver (drivers/src/altera_avalon_jtag_uart_*.c) | two ring buffers, interrupt enables, seconds without the host | read, write, close, ioctl, interrupt, alarm | characters arrive once and in order; nobody waits for ever for a host that is there |
| file descriptors (HAL/src/alt_open.c, alt_close.c, alt_read.c, alt_stat.c, ...; drivers/src/altera_hostfs.c) | descriptor pool, high-water mark, locks, handles of the host | open, read, write, lseek, fstat, isatty, ioctl, fcntl, stat, close, redirection | a descriptor keeps its device until it is closed; locks exclude; failures leave nothing; a write reaches its own file |
| alarms (HAL/src/alt_alarm_start.c, alt_tick.c) | list of alarms with time and roll-over flag, tick counter | start, stop, tick with callbacks | called when due, neither late nor early, also around the wrap of the counter |
| time of day and delays (HAL/src/alt_settod.c, alt_gettod.c, alt_times.c, alt_busy_sleep.c, alt_usleep.c) | the time at tick 0, the tick rate | set, get, times, delay | the time goes on from what was set; a delay is as long as was asked for |
| startup (HAL/src/crt0.S, alt_load.c, alt_main.c, alt_sys_init.c, alt_dev.c, alt_exit.c, ...) | sections of memory, lists of devices, standard streams | from reset to main, from main to `_exit` | main finds a clean system, also after a reset |
| interrupts (HAL/src/alt_iic.c, alt_irq_handler.c, alt_irq_register.c, HAL/inc/priv/alt_legacy_irq.h) | enable bit, mask and its copy, table of handlers | register, enable, disable, sections, dispatch | every handler that is called is there; sections nest |
| heap (HAL/src/alt_sbrk.c) | end of the heap, limit of the stack | `sbrk` | the heap stays in its memory and below the stack |
| exceptions (HAL/src/alt_exception_*.S, alt_instruction_exception_*.c) | saved registers, the emulated instruction | dispatch, emulation of multiplication and division, handler of the program | an emulated instruction does what it does in hardware |
| caches (HAL/src/alt_dcache_*.c, alt_icache_*.c, alt_uncached_*.c) | lines that are valid, dirty | flush, flush without writing back, uncached blocks | after a flush the region is in memory alone |
| logging and small printf (HAL/src/alt_log_printf.c, alt_printf.c, ...) | a conversion in progress, flags, counters of the hooks | print, hooks of driver, alarm and clock | the text is what the format asks for, each log complete |
| profiling (HAL/src/alt_gmon.c, alt_mcount.S) | records of arcs, histogram, the alarm of the sampler | count a call, sample | no arc is lost, one alarm samples |
| board and address map (software/dvs22_g6_sw_bsp/system.h, linker.h, registers) | constants | | no two slaves share an address |
| error stubs, unused device classes, build files | | | not modelled, see [Limits](#limits) |

### Interactions

- **main -> drivers.** Single threaded. `main` registers `tx_done_callback` and
  `rx_done_callback` (main.c:41-49, 83-104), then `bilinear_scaling_hw` polls the
  two volatile flags (bilinear_scaling_hw.c:129-132) that the callbacks set in the
  interrupt.
- **Driver <-> controllers.** Shared memory: chains of descriptors the program
  allocates and frees, and a control register. The program learns only from the
  flags that a controller no longer uses the memory.
- **Controllers <-> accelerator.** Two Avalon streams with *valid* and *ready*,
  one packet per row. Input and output depend on each other: the accelerator
  stops its input while it holds two rows, and has no output before the rows for
  it have come.
- **Driver -> accelerator.** Six parameter writes before the image, one restart
  bit behind it.
- **Program <-> UART interrupt.** The ring indices, without a lock: `rx_in` and
  `tx_out` belong to the interrupt, `rx_out` and `tx_in` to the program. The
  shadow of the control register is changed by both, with interrupts disabled.
- **Program, interrupt, controller on one SGDMA.** The driver has no lock: a
  descriptor changes hands by one bit of its control byte, written last; the interrupt
  is cleared before the callback, which may start the next transfer.
- **Startup -> everything.** `alt_load` and the clearing of .bss are what separates a
  program from the one before a reset, together with the drivers' `init` functions,
  which run with interrupts already enabled.
- **Descriptors -> host.** The host keeps files by handles; a released descriptor
  still holds its old one.
- **Alarm -> UART.** `altera_avalon_jtag_uart_timeout` counts the seconds without
  host activity that a blocked call waits for.

### What is hard

The list of hazards, each at its line and with the properties that cover it, is
in `PROJECT.json`. In short:

- *Pipelining*: the last pixel group of a row is read while the RAM it is read from
  is already handed back (acc_bilinear_scaling.vhd:445); the output handshake runs
  three stages behind the position counters.
- *Back pressure* at the one edge where something else happens: the end of a row,
  the restart (acc_bilinear_scaling.vhd:319).
- *Sticky state* over several images: the flush flag, the row count, coordinates.
- *Interrupts between any two instructions* of the driver: a flag read, a
  descriptor freed, a device started, a request left pending for the next call.
- *Lock-free rings* that are full, empty, or wrap around while both sides look.
- *Fixed-point boundaries*: the last row and column, factors whose inverse is
  truncated, roll-over of a counter, the last entry of a table.
- *Sequences of calls*: a second image after a first, a lock after an open, a stat of a
  file that cannot be opened.
- *Restarts*: memory and devices after a reset that has not reached all of them.
- *Code that runs in the middle of itself*: an interrupt that logs while the program
  logs, or calls a profiled function while the profiler makes a record.
- *Reading a value in two words* while it changes (the performance counter).

## Modules

| Module | Models | Extends / uses |
|---|---|---|
| `RowWindow` | abstract: a window of at most two consecutive rows | |
| `RAM_writer` | RAM_writer.vhd, RAM.vhd, per clock edge | |
| `RAM_writer_stream` | the buffer with a source and any reader that keeps to the protocol | `RAM_writer`; implements `RowWindow` |
| `bilinear_scaling` | the C model as pure operators | |
| `bilinear_scaling_sw` | the C model as the loops it is | `bilinear_scaling` |
| `acc_bilinear_scaling` | acc_bilinear_scaling.vhd, per clock edge | `RAM_writer` |
| `acc_bilinear_scaling_TB` | source, sink and host around it | `acc_bilinear_scaling`; compares with `bilinear_scaling`; implements `acc_rows` and `RAM_writer_stream` |
| `acc_rows` | abstract: what the accelerator does in whole rows | `bilinear_scaling` |
| `bilinear_scaling_hw` | the driver as the application uses it, its callbacks, interrupts, DMA controllers | `acc_rows` is its accelerator, which it implements |
| `altera_avalon_sgdma` | the whole SGDMA driver, any sequence of its calls | |
| `main` | the loop and the life of every block | |
| `altera_avalon_performance_counter` | the counter's registers and macros, the report | |
| `main_perf` | what a job of main measures | `main`, `altera_avalon_performance_counter` |
| `CharFifo` | abstract: a bounded queue of characters | |
| `altera_avalon_jtag_uart` | the fast UART driver, its interrupt, the device, the host | implements `CharFifo` in both directions |
| `alt_fd` | descriptors, locks, open, close, redirection | |
| `alt_io` | everything else that is done with a descriptor, names, hostfs | `alt_fd` |
| `alt_alarm` | alarms and ticks | |
| `alt_time` | time of day, delays | `alt_alarm` |
| `system` | address map, interrupt numbers, registers | |
| `alt_irq` | enable bit, mask, handlers, sections | |
| `alt_sbrk` | the heap | |
| `alt_main` | from reset to main to `_exit`, with resets | `alt_irq`, `alt_sbrk`, `system` |
| `formats` | abstract: what a printf directive is answered with | |
| `alt_printf`, `alt_log_printf` | the two printf functions, the log's hooks | `formats` |
| `printing` | both together | `alt_printf`, `alt_log_printf` |
| `alt_gmon` | mcount and the sampler | |
| `alt_exceptions` | instruction exceptions and the emulation | |
| `alt_cache` | the flushing functions over a cache | |
| `*_proofs` | theorems about the module before the suffix; `alt_time_proofs` also about `alt_alarm`, `alt_main_proofs` about `alt_irq`, `alt_sbrk` and `system`, `main_proofs` also about `main_perf` and what main calls or measures, the C model, the driver and the buffer (`RAM_writer_stream`), `alt_fd_proofs` about `alt_io`; `nios2_proofs` is about the processor and the controllers beside it (`altera_avalon_sgdma`, `alt_cache`, `alt_exceptions`), `diagnostics_proofs` about `alt_printf`, `alt_log_printf` and `alt_gmon` | the modules, `TLAPS` |
| `MC_TB`, `MC_scaling`, `MC_callbacks`, `MC_uart`, `MC_library`, `MC_boot` | jobs, images, requests and bounds for TLC | |

`MC_scaling`, `MC_callbacks` and `MC_library` each hold several modules that do not
share variables. A variable `part`, chosen at the start, says which of them runs in a
behaviour; the others stand still. Their instances are the union of the parts'
instances, nothing else. `MC_callbacks` runs the clock in two parts, once with alarms and
without the time being set, once the other way round: the two share the tick counter,
which neither of them moves.

The composition is two steps of assume and guarantee. The buffer is proved to be a
sliding window for *any* reader that keeps to `Legal`, and the accelerator is proved to be
such a reader (`KeepsToProtocol`; the run `scales` checks `KeepsWindow`). The accelerator is proved to
implement `acc_rows` (`RowsAreImplemented`; the run checks `ImplementsRows`); the driver model
runs against `acc_rows` instead of the clocked model and is proved to keep to its protocol
(`UsesAccelerator`).

Operators named `X_Something` with the comment "Mutant" in front are variants of
the operator `X` with a plausible bug. No specification uses them; they are kept to
show that each property can fail.

### RAM_writer, RAM_writer_stream, RowWindow

A step is a rising edge. Each VHDL process is an operator of the same name that
says what it does to its registers (`WRITE_POSITION`, `RAM_FILLED_STATUSES`,
`RAM_SELECT`, `COUNT_ROWS`, `READ_PROCESS`, `WRITE_PROCESS`); concurrent
assignments are state functions (`w_wr`, `w_wr_array`,
`w_asi_input_data_ready`); ports driven from outside are parameters. Pixels are
triples of image, row and column, so that a pixel out of place is visible.
`WriterInit` is the state after the power-on reset; a reset in operation, which
nothing in the design causes, is left out.

`Legal` is the protocol of the reader: it does not give back the newer of two rows
and keep the older one. Under it the filled RAMs are `RowWindow`.

### acc_bilinear_scaling, acc_bilinear_scaling_TB

The state machine (`st_wait`, `st_read`, `st_process`), counters, flush and restart
logic and pipeline are modelled edge by edge, including the VHDL *variables* whose
order of assignment matters (acc_bilinear_scaling.vhd:247-300). Data is symbolic:
where the circuit carries products of pixel values and weights, the model carries
the pixels and the weights, so equality with the C model means equality of
positions and weights for every picture. That the arithmetic on values stays in
range is the subject of `bilinear_scaling_sw`. `READ_MM`, the read port of the
registers, changes nothing else and is left out; a 16-bit register is written in one
step.

The test bench leaves the random generators of source and sink open: *valid* and
*ready* are chosen at every edge. The `stall` of a job bounds the cycles in a row the sink
withholds *ready*. The host writes the parameters in the order of
bilinear_scaling_hw.c, waits for both sides to be done, and writes the restart bit.

### bilinear_scaling, bilinear_scaling_sw

`to_fixed_point`, `increment`, `output_size`, `group` and `interpolate` are utils.c
and bilinear_scaling.c with their truncations and their masks. The floats of the
code are the rationals they stand for; factors have five fractional bits, and the
truncation of their inverse is the same. `bilinear_scaling_sw` is the loop with its
accumulated coordinates: one step per pixel and one per row end.

### acc_rows, bilinear_scaling_hw

The program is a sequence of labels, one for each step between which an interrupt or
a controller may come in: allocation, each iteration of the two descriptor loops,
the terminating descriptor, parameters, the two starts, the two polling loops, the
restart bit, the two flag resets, stop, free. `EnterIsr` is alt_irq_handler with its
priority followed by the clearing of the request; `Callback` is the rest of
`alt_avalon_sgdma_irq`. While an interrupt is serviced the program stands still,
which is how the processor works without nesting. `Begin` and `Transfer` are the
controllers (external): they take a descriptor that is owned by hardware, move a row,
go on with the next one or end the chain with an interrupt if that is enabled. Fresh
memory is garbage: a descriptor says "owned" or not at random until it is
constructed. A transfer is a whole row and is a step of `acc_rows`.

### altera_avalon_sgdma

Here a step lies between two accesses to a register or to a descriptor: clearing the
next descriptor's ownership, writing the fields, handing it over; reading BUSY,
resetting, pointing, setting RUN; waiting, reading the status, stopping. Any program may
make any call in any order (open, init, construct, asynchronous and synchronous
transfer, check, register and unregister a callback, start, stop, polling). The
controller (external) takes descriptors, fails, completes, polls; the interrupt comes at
any step. A callback may start the next transfer, outside of the program's calls; inside them it
may only in the run `sgdma_busy` (`CallbackInCall`). What the driver leaves to its program
is written at the head of the module. Two ghosts carry the properties: `filling`, the
descriptors whose fields are being written, and `unanswered`, a request no callback has
been called after.

### main, main_perf, altera_avalon_performance_counter

Blocks of memory are numbered by the load they belong to, one for each row and one
for the array of row pointers. `Load` has the condition of main.c:122-124 with a
local variable that starts without a value. A segment is the shallow copy
extract_segment makes: pointers into the image. Reading a segment outside the image
is undefined in the code and `ReadsLive` speaks only of segments that fit
(`Fits`). Pixels, files and dialogue are left out.

`Accesses` is the sequence of accesses to the counter that the macros in main and
`perf_print_formatted_report` make in a job; between any two of them clocks pass. Each
count is two words, and `WORD` stands for 2^32. `spent` counts the same clocks
independently.

### altera_avalon_jtag_uart, CharFifo

The flags are those of system.h: fast driver, one thread. A step lies between two
accesses to something shared: the indices and the room are read
(`ReadLook`, `WriteLook`), characters are copied, the index is moved on, the
interrupt is enabled with interrupts disabled, the loops spin, and the last check
decides whether to give up. The interrupt routine goes by characters and re-reads the
control register after each round. The host types and takes characters, and may
leave if there is an alarm that would notice. The ring from `out` to `in` is the
queue of `CharFifo`; for reading, characters being copied still count as in the
ring until `rx_out` has moved.

### alt_fd, alt_io

`Redirect` is alt_io_redirect, once for each stream before main. `OpenDevice` and
`OpenFile` are alt_open with alt_get_fd, the driver's open and the error path that
releases the descriptor; the host refuses or opens files as it likes. `Close` calls
the driver and releases the descriptor whatever it returns; the standard streams are
not released. `Lock` and `Unlock` are the ioctls TIOCEXCL and TIOCNXCL, `Fcntl` is
F_SETFL. `held` records what the program was given each descriptor for. The program
is assumed to use only descriptors it holds, or the error an open returned.

`alt_io` finds what a name means (alt_find_dev, alt_find_file), with the mount point of
hostfs, and adds the calls that move data or ask: access modes are looked at by
alt_read and alt_write, missing functions of a device are answered as each call does,
and what the host answers is open. `stat` is the three calls it makes, one step each.
Names are sequences of characters, because prefixes matter.

### alt_alarm

The list is modelled by its two pointers for each entry, so that an entry that is
removed while alt_tick stands on it behaves as in the code. Callbacks may ask to be
called again, stop an alarm (their own too, but not the one alt_tick goes on to), or
start one. `due` counts for each
alarm how many ticks it still has to wait, independently of the modular times. On
this board there is no system clock (ALT_SYS_CLK is none): alt_tick never runs and
alt_alarm_start fails. The module is about the HAL as it would run with a clock, and
gives the `Timeout` of the UART module its meaning.

### alt_time

Registering a clock, settimeofday, gettimeofday and times over the same counter, with
products cut off at `WORD`; delays as the number of turns of the loop that alt_busy_sleep
makes, big loops and rest.

### alt_main, alt_irq, alt_sbrk, system

`at` counts the steps from the reset: clearing .bss (the handlers and the copy of the
mask), copying sections (the lists, with the null device in that of the devices and the
standard streams on it, and the end of the heap), enabling
interrupts, initialising each device, connecting the streams, constructors, main,
destructors, `_exit`. Interrupts come between any two steps and inside the sections of
registration. `Reset` may come at any time, and may or may not reach a device, which
then still requests interrupts; memory keeps its contents, so that what `main` finds
depends on what startup clears and copies. In main any sequence of registration,
enabling, sections and `sbrk` follows. `system` has the constants of system.h and the
linker script, with the assumptions the software makes: masters see one memory, the
program lies in it, a stream carries a pixel a beat.

### formats, alt_printf, alt_log_printf, printing

`formats` says, from the C standard, which texts answer a directive. The functions are
modelled as what they put out per directive, with their variables (flags and widths of
the log's printf are those of the whole call), semihosting's buffer, and the wait for
room in the UART. The log may be entered from interrupts in the middle of a text; a
text belongs to its call, and only whole texts of others may lie within it.

### alt_gmon

mcount is two steps per level, load and store of the count, and the making of a record
with interrupts disabled; the second level is an interrupt in the middle of the first.
`ClockStarts` is the appearance of a system clock, before which the alarm of the sampler
cannot be started.

### alt_exceptions, alt_cache

The emulation is modelled turn by turn: shifts, conditional additions and subtractions,
signs, with the registers in the frame. Words have three bits, all operands are tried,
and the registers are those the code treats apart (zero, two ordinary ones, gp, sp). The
caches are lines with a dirty bit; flushing goes line by line with the code's
rounding.

## Runs

The last four rows of the table are the six runs that find a violation, each of one
property; they belong to [Where the code deviates](#where-the-code-deviates). The other
six runs finish without an error.

| Run | Module, configuration | Question | Instance |
|---|---|---|---|
| `scales` | MC_TB, TB_scales | are all output pixels right, framed and complete, under gaps and stalls; does the accelerator keep to the buffer's protocol and implement `acc_rows`; does it finish every job | 112 jobs of width 4 to 6, height 2 to 8, factors 1/8 to 5/2; 17 lists of 2 or 3 different jobs |
| `parts` | MC_scaling, scaling_parts | main: the life of every block, and what it reports. The loops in C: are reads in bounds and at the right place, pixels in range. The driver: memory, flags, completeness and end of calls in sequence. The buffer: is it the window, whatever the gaps and the reader | 2 image sizes, 32 requests, 3 jobs, 3 clocks a job; 15 sizes, 21 pairs of factors; heights 2 to 5, four factors, calls without end; 4 words, 4x4 pixels, 3 images |
| `uart_rings` | MC_uart | is each ring a queue; does everything arrive, is a waiting reader served; close and blocked calls when the host leaves and comes back | rings of 3, FIFOs of 1; 4 characters out, 5 in, 2 both ways; 4 out with a clock |
| `library` | MC_library | descriptors: who owns one and a file, locks, failures, which file a write changes. The two printf functions, the log, the profiler, the emulation and the flushing functions | 5 descriptors, 2 devices, 1 file, 2 handles, 3 names; words of 8 bits; 2 levels of 1 call; 2 functions, 2 callers; all operands of 3 bits; 2 lines of cache over 4 of memory |
| `callbacks` | MC_callbacks | alarms: is the list whole, are alarms called exactly when due, does alt_tick end; does the time go on; how long are delays. The SGDMA: what does the controller find in descriptors and registers; is every request answered, does a blocking transfer end, with its own status | 3 alarms, counter modulo 4, 2 ticks a second; 2 descriptors, chains of rows with interrupts |
| `boot` | MC_boot | is a handler there for each interrupt, do sections nest, is the heap in bounds, does main start clean, and is it reached | 3 interrupts, heap of 4, one reset |
| `row_end`, `stall`, `reinit` | MC_TB | deviations of the accelerator | one list of jobs each |
| `segment` | MC_scaling, main_segment | deviation of main | one job |
| `sgdma_busy` | MC_callbacks, `AnyCallbackSpec` | callbacks that start a transfer at any time | as `callbacks` |
| `sampler` | MC_library | interrupts that start the sampler | as `library` |

What the properties with several parts say is the conjunction of their parts, each of
which has a comment of its own: `SinkIsSatisfied`, `BlocksKept`, `ReadsRightPixels`,
`CallsAreSeparate`, `BufferHoldsRows`, `WritesDrain`, `CallsServed`, `DescriptorsKept`,
`CallsRespectOthers`, `AlarmsKept`, `TransfersEnd`, `InterruptsKept`,
`StartsAndEndsClean`, `PrintsAsAsked`.

### Bounds and why they are enough

- **Buffer**: a ring of two rows has passed through all its configurations after
  three rows; four rows and two images add the bottom of an image and the restart.
  Width and RAM depth are equal so that the wrap of the address and the end of the row
  coincide. The proofs cover all sizes.
- **Accelerator**: fixed-point widths are those of the code; only the RAM has 8 words.
  The factors are below, at and just beside 1/2 and 1, 3/4, 3/2, 2 and 5/2, and down
  to 1/8 with an odd number of rows skipped (both RAMs given back at once). Widths of
  at least 4, outputs of at least two columns and one row, and heights of at
  least 2 are the region in which the accelerator works, found by
  running outside of it: with one input row, at most three columns, a single output
  column or an output of one pixel it hangs or flushes its image, and such jobs are
  not in the lists. Stalls are bounded by width - 4 cycles in lists of one job
  (with width - 3 it may hang, with width it puts out wrong pixels: finding `stall`)
  and by 0 in lists of several jobs (any stall at the restart is finding `reinit`).
- **Driver**: chains of 1 to 8 descriptors; calls follow one another with different
  jobs without limit. No state of the driver depends on more than the current and the
  previous call.
- **main**: three jobs are a first load, a replacement and a re-use. One size is wide,
  one high. `MaxJobs` bounds `num` and `loads`. `MaxClocks` is one more than a carry
  into the high word needs, and less than the words hold (`PerfAssumption`).
- **UART**: a ring of 3 holds two characters, fills, empties and wraps, with one piece
  or two; with a FIFO of one character, four characters make a write wait for the host.
  `Setups` are the systems: without a clock, as on this board, and with one, each with
  its bounds on the characters, more than a ring holds. `INT_MAX` bounds the seconds,
  which the code saturates at the same place; 2 is then the only timeout that ends.
- **Descriptors**: two free places besides the standard streams are enough for a file
  and a device, a file twice, and exhaustion. One file suffices for a write that reaches
  a file it was not meant for, since a handle may be given anew. Names are one device,
  the file, and one that only begins like the mount point; the second device is what the
  streams are before the redirection. Handles are interchangeable
  (symmetry); no liveness is checked there.
- **Alarms and time**: three alarms give the one that is visited, the next, and one that
  is started or stopped by a callback. The counter wraps every four ticks; `Longest` is
  two ticks less than the wrap, see below. A second is six microseconds and two ticks,
  so that times lie before, at and behind a tick and carry into the seconds; words wrap
  at eight, just behind.
- **SGDMA**: two descriptors make a chain, a loop, and a descriptor under construction
  while the other one is worked on. Callbacks are registered with one set of bits,
  those for chain, error and the interrupt as a whole.
- **Startup**: one reset at any step gives every combination of old and new memory. The
  heap is two words; increments go down, by half a word and by a word.
- **Diagnostics**: 8 bits have numbers with zeros inside, in front and at the end in each
  base. One call and one interrupt inside it is all the nesting the handlers allow. Two
  levels of mcount with two functions and callers make the same record, records of one
  function, and of one caller; slabs of two fill. Three bits have the most negative
  number and quotients of every sign.

Deadlock is checked in `scales` and `callbacks`. The others
contain programs that may stop: the C loops end, main stops at an assertion of the input
or at the bound, a UART whose characters are used up waits for the user, `_exit` ends,
and calls are bounded by `MaxRequests`, `MaxCalls`, `MaxInterrupts`, `MaxIrqs`,
`MaxMcounts` and `MaxSamples`.

### Fairness

- `TBSpec`: weak fairness of the edge at which the source is valid and the sink ready.
  Both draw at random with a probability above 0 (acc_bilinear_scaling_TB.vhd:96), and
  each edge is such an edge with a probability bounded below.
- `HwSpec`, and `MCSpec` of `parts` for it: the program executes (as a whole: it is sequential), a request is taken
  once nothing else is serviced, routines end, controllers and accelerator are clocked.
- UART: calls in progress go on, interrupts are taken, the clock of the alarm ticks and a
  host that is there takes characters. Nobody has to call, type, stay or come back.
- SGDMA, `SgdmaSpec`, and `MCSpec` of `callbacks` for it: a call goes on, a request is serviced, a routine returns and a transfer
  completes. Nobody has to call, and chains need not end.
- Alarms, `TimeSpec`, and `MCSpec` of `callbacks` for it: alt_tick goes on once it has begun. Ticks themselves are not fair.
- Startup: a handler returns, and the processor executes *between* interrupts however
  often they come (strong fairness): they come at the pace of a host, which is slower
  than the processor. Whether a reset comes is open; it begins a new start.
- Other specifications have no fairness and check no liveness.

## Proofs

Each theorem holds for all values of the constants that satisfy the named
assumptions. In every module the pattern is an inductive invariant, a lemma per
action, and a last step that combines them.

| Module | Theorems | Assumptions |
|---|---|---|
| `acc_bilinear_scaling_TB_proofs` | the accelerator: `Invariance`, `SinkSatisfied`, `KeepsToProtocol`; `NothingIsLost`, `RestartsAreClean`, `RowsAreImplemented`; `NeverStuck`, `ProgressBounded` | every list of jobs is `Handled`, for all but the first three also `NeverLost`, for `RowsAreImplemented` also `RowByRow`, for the last two also `HasPair` (below); `DepthAssumption`, `JobsAssumption`, `ExponentsAssumption` |
| `main_proofs` | the buffer: `StreamTypeCorrect`, `WindowAlwaysConsecutive`, `NoPixelLost`, `RowsAreHeld`, `StreamImplementsWindow` | `DepthAssumption`, `StreamAssumption`: a row fits into a RAM, an image has a row |
| `main_proofs` | the C model: `TypeCorrect`, `ReadsInBounds`, `NoDrift`, `ReadsRight`, `OutputBounded`, and the lemma `Interpolation` | `InputAssumption`: images are not empty and hold bytes, factors are positive; `FixedPointAssumption`, `PowersAssumption` |
| `main_proofs` | the driver: `HwTypeCorrect`, `NoUseAfterFree`, `FlagsTellTheTruth`, `NeverBusy`, `ImageComplete`, `SeparateCalls`, `DriverUsesAccelerator` | `DriverAssumption`: an image and its scaled version have at least one row |
| `main_proofs` | the loop: `MainTypeCorrect`, `SegmentAlive`, `NoDoubleFree`, `JobsCleanUp`, `BlocksAreKept` | `MainAssumption`: sizes and coordinates are natural numbers |
| `main_proofs` | the report: `ReportsAreMeasured` | `CounterAssumption`; `PerfAssumption`: two sections, a job that takes no more clocks than two words hold |
| `alt_fd_proofs` | `FdTypes`, `HeldStayOpen`, `HandlesHaveOwners`, `MarkIsEnough`, `OpenRespectsLocks`, `FailuresLeaveNothing`, `DescriptorsAreKept`, `OthersAreRespected` | `FdAssumption`: more than three descriptors, and names of devices, of the file system and of handles do not clash |
| `alt_fd_proofs` | with the calls of `alt_io`: `DescriptorsAreKeptInUse`, `OthersAreRespectedInUse`, `WritersAlone` | `FdAssumption` |
| `nios2_proofs` | the SGDMA driver: `SgdmaKeepsInv`, `DescriptorsAreWhole`, `PointedAtWhileIdle`, `StatusIsOwn` | `SgdmaAssumption`: the end of a chain is no descriptor |
| `nios2_proofs` | the caches: `RegionsAreFlushed` | `CacheAssumption`: cache and memory are whole numbers of lines, and there is a cache |
| `altera_avalon_jtag_uart_proofs` | `UartTypeCorrect`, `TransmitRingIsFifo`, `ReceiveRingIsFifo`, `CloseWaitsForTheRing` | `UartAssumption`: a ring has two places, a FIFO one, the threshold is less than the FIFO |
| `alt_time_proofs` | `AlarmsAreKept`, `AlarmsAreKeptInTime`, `DelaysTakeTheirTurns`, `TimeOfDayIsKept` | `AlarmAssumption`: an alarm waits at most two ticks less than the wrap; `TimeAssumption`: rates divide a second, integers hold the turns of a microsecond |
| `alt_main_proofs` | the start: `MainKeepsInv`, `HeapKept`, `InterruptsAreKept`, `StartsAndEnds` | `MainAssumption`: the objects in the lists are different; `IrqAssumption`; `HeapAssumption`: the bounds of the heap are aligned |
| `nios2_proofs` | the emulated instructions: `EmulationIsExact` | `ExceptionsAssumption`: the registers are among the first 29, r0 is one; `ExponentsAssumption` |
| `diagnostics_proofs` | the printf functions: `EverythingPrintsAsAsked`, from `LogPrintsAsAsked` and `PrintfPrintsAsAsked`; the log: `LogLosesOnlyToInterrupts` | `FormatsAssumption`: what directives are written and answered with are characters; `LogAssumption`, `PrintfAssumption`: arguments fit their directives, the FIFO and the buffer have room for a character, what the program logs ends no connection |
| `diagnostics_proofs` | the profiler: `CallsAreCounted`, `SamplerIsStartedOnce` | `GmonAssumption`: a slab has a record, a bucket a byte, functions and callers are finitely many |
| `alt_main_proofs` | the address map: `OneSlave`, `RegistersWithin` | none: the addresses are those of system.h |

`PowersAssumption` and the accelerator's `ExponentsAssumption` say that powers of two are
positive, that of the exceptions and `FormatsAssumption` also that the exponents of a product
add up, as far as the width of a word needs. They are facts, stated as
assumptions because the provers do not know exponentiation; TLC evaluates them on the
widths of the runs.

**The accelerator.** `SinkSatisfied` is the theorem the rest of the project is built
around: whatever the sizes, factors, gaps and stalls, what leaves the pipeline is what the C
model computes. Its hypothesis `Handled` is the region in which the circuit works: rows of
at least four pixels that fit a RAM, an output of more than one column, stalls of at most
`width - 4` cycles in the last job and none before a restart. TLC evaluates it for the lists of
`scales`, and outside it has the runs `stall` and `reinit`. `TBInv` distinguishes where the
accelerator is with a job. While it is `Running`, three things must agree: the window in
the RAMs (`Window`, as in the buffer), the position (`PositionInv`: the coordinates are counter
times increment, also where they stop at the last column and row), and the pipeline
(`PipelineInv`: each stage is right for *its* output pixel, which `At0` to `At3` count from
the one the sink expects). `Waiting` says which rows may be missing for the next output row,
`Working` that the pair is there, or was when it was read. The hard part is the end of a row:
the circuit gives the top row back with the first of the clocks its last pixel
takes, and the source overwrites it meanwhile. `PairKept` bounds the columns overwritten by the
clocks since (`Elapsed`): the pixel has been read before the first of them changes (`Reading`),
and the row cannot end while its RAM is held in reset, which is where the width of four and
the bound on stalls are needed. `EnteringRight` shows that the group is the C model's unless
the row and the next disagree about saturation, which is the deviation `row_end`.
`Over` carries the end of the image to the restart: without stalls, `r_reinit` is
obeyed before the host writes the restart bit (`Restarted`). `Lost` was found by the
proof: if the size of the new job with the factors of the old is an output of one pixel, the
flush flag is up before the image comes, nothing is put out, and the job never ends. The
sink is not deceived by that, so `SinkSatisfied` does not exclude it. From `TBInv` follows what the buffer needs of its reader
(`KeepsToProtocol`): until the last pixel of an image, every clock is one of
`RAM_writer_stream`. Rows are given back from the oldest on, and none completes in a RAM
that is held in reset while the other RAM is kept.

For lists of jobs without such a pair (`NeverLost`) no job is `Lost` (`NothingIsLost`): `CleanInv`
says that a register the host has not come to yet holds the parameter of the old job, so that the
sizes in between are those `NeverLost` names. What is left of a job at the restart is then
`Over`, and the restart clean (`RestartsAreClean`). The refinement of `acc_rows`
(`RowsAreImplemented`) needs to know how far the input may be ahead of the output. `RowsInv` says that the rows
are taken that the pixels in the pipeline are computed from (`TakenFor`); that the input is
not too far ahead is the invariant `Window`, if the pixel that leaves the pipeline is at most one row
behind the one that enters (`OneRowBehind`). With three output columns it is, for the
pipeline has three stages. With two it depends on the bubble between two rows
(`RowsApart`, whose clocks `Since` counts): a stall of four cycles at the right moment
leaves pixels of three rows in the pipeline, and then a row is taken while the sink is two output rows
behind, which `acc_rows` forbids. The attempt to prove the theorem without `RowByRow` found this, and TLC confirms
it: a job of width 8 and height 4 with factors 1/4 and 2 violates `ImplementsRows` with
stalls of 4, and satisfies it with stalls of 3. No pixel is wrong there (`SinkSatisfied` covers the
job); what is shown of the driver holds for the jobs that are `RowByRow`.

That it finishes its jobs (`JobsComplete`) needs fairness, but only for the last step of the
argument. `Spent` counts what has been done of an image: pixels taken, pixels that have entered the
pipeline and passed its stages, and the states on the way to the next one. `NeverStuck` says that no
edge undoes any of it, and that each edge on which the source presents its pixel and the
sink takes one either adds to it or moves the host on to the next phase or job;
`ProgressBounded` says that it cannot exceed `Limit`. Such edges occur again and again by
the fairness of `TBSpec`, and so the job ends; this conclusion, which needs ENABLED, is TLC's. It is the absence of
deadlock between input and output: `PairComes` says that the accelerator waits for a
pair of rows only while the source still has a row to give. With an image of one row it
would not, hence `HasPair`.

**The buffer.** `WindowIsConsecutive` alone is not inductive: nothing says that what
is written so far of the next row is the next row. `StreamInv` adds
`PositionFollowsSource` (the address of the selected RAM is the column of the source,
the count its row) and `PartialRowIntact`. An edge is split into the registers
(`EdgeTypeOK`, `EdgeMoves`) and the contents (`EdgeWindow`). For the refinement the
window is `row - RowsHeld .. row - 1`; an edge is an `Accept`, a `Release` or a
stutter according to whether a row completes and how many RAMs are given back.

**The loops.** `LoopInv` says that `x` and `y` are the products of counter and
increment and that every pixel written lies between two pixels of the image. That
reads stay in the image is then arithmetic: the increment is at most
`ONE_NFRAC * SCALE_ONE / s` (`IncrementBound`), the counter is below
`n * s / SCALE_ONE`, so the product is below `n * ONE_NFRAC` (`CoordinateInBounds`).
A weighted mean with truncation stays between its values (`WeightedMean`,
`Interpolation`).

**The driver.** None of the safety properties is inductive: whether freed memory is
in use depends on the flags, these on the interrupt, that on the chain. `HwInv`
consists of `ProgramInv` (what the place of the program says of its variables),
`ChainInv` (how far the chains are built, and that each ends), and for each device
`DeviceInv`: *before* its start it is idle, without request and with its flag down;
*during* the run it is either walking, or through with exactly one notice under way
(request, routine or flag); *after* it is quiet at the end of its chain. One lemma per
action; `DeviceFrame` settles the device an action does not touch. The properties
follow, and with them that each step is one of `acc_rows` or a stutter.

**The main loop.** `MainInv` adds to the properties which of the blocks of the job
(`JobBlocks`) are allocated at each label, and that the current image is.

**The report.** Main reads each time in two words, and a carry between them would give a
time that never was. `PerfInv` says where in the eighteen accesses of a job it is
(`Places`), that a counter agrees with the clocks that have really passed in its section
and runs just between its begin and its end (`CountsAgree`), and that what has been
read is what was spent (`ReadRight`). The last is inductive because every read lies
behind the access that stops all counters. `TwoWords` puts the words together; it is
where the bound on a job is needed.

**The descriptors.** `FdInv` adds to the properties what each place of the pool looks
like (`Kept`: a stream has a device, a free place no flags, a file a handle and no lock),
that a held descriptor is not free, and that before main nothing but the streams is open
(`Startup`). `GivenFacts` says what `alt_get_fd` returns; the opens come down to two
cases, given back (`GivesBackSame`: all is as before) or given out (`OpensInv`). That
open overlooks no lock needs `MarkCoversOpen`: each held descriptor is a stream or at
most at the mark (`NoLockOnOpened`). For the calls of `alt_io`, `IoIsFd` shows that each
is a step of `alt_fd` or one that leaves descriptors alone, so that what holds of those
holds of these. `HostInv` adds that each handle that is open has one of the host's files;
that a write reaches just the file it is meant for is then `HeldAreOpen`, although
a descriptor that is released keeps its handle.

**The SGDMA driver.** `WholeDescriptors` depends on who has which descriptor. `SgdmaInv`
says of the one under construction that it is neither owned nor worked on
(`ConstructInv`), that no descriptor points to itself and that one that failed has been
given back (`ChainsInv`), and that between the check of BUSY and the start nothing but
polling can set the controller going (`SetupInv`). That a descriptor under construction
may even be the one the controller waits for needs that the one *behind* it is disowned
first, unless the controller is at rest.

**The caches.** `CacheInv` says that the loop over a region is at its start plus a
multiple of a line, and that nothing of the lines behind it is cached (`Behind`).
That the region is flushed when the function returns is arithmetic of lines: an aligned end
lies in a later line than everything before it (`LineBegins`), and an unaligned one in the
same line as the address before it (`WithinLine`), which is why the additional turn is
needed, and discards no more than the line behind.

**The UART rings.** `TxInv` and `RxInv` say what lies in each place of a ring, and who
may change it: the places the program is filling or emptying are one piece behind or in
front of what the interrupt routine works on. They say it in terms of `Slot`, which
counts places without a division; `RemainderNear`, `UsedIs` and `SlotIs` translate the code's
remainders. `TxQueue` and `RxQueue` then show that the rings, unrolled, are the queues of
`CharFifo`, and each action is a `Put`, a `Take` or a stutter.

**Alarms and time.** `AlarmInv` has an order of the nodes (`pos`, a witness, since the
list is only pointers): the list goes up in it, and so does `alarm`, unless it has been
removed. `Scheduled` says what time and roll-over flag of an alarm are, given how many
ticks it waits and whether alt_tick has yet to visit it in this tick; the guard on
`Longest` is exactly what makes the two cases of roll-over apart. For the time,
`TimeInv` has only the ranges; the rest is arithmetic on products cut off at a word and
on carries (`FractionIsOne` and the lemmas behind it).

**Startup, interrupts and heap.** `HandlersReady` is not inductive, since it depends on
the order of ready, registered and enabled, and on what a reset leaves. `MainInv` says
for each step of the start what is there in front of it (`Fresh`), whatever the memory
held: tables from the step that clears .bss on, the mask from the initialisation of the
interrupts on, each device from its step on. The table of steps is a sequence that is put
together; `StepsAre` computes it once. `SectionInv` says that the saved contexts
are a function of the place (`Depth`). In main, `RunningInv` keeps handlers and mask
together while one registration is half done. The heap needs that a limit of the
memory is aligned: rounding an end up then does not cross it.

**The emulated instructions.** This processor multiplies and divides in software, so the
C model, the heap and the report rest on these loops. `Multiplied` says
what the registers hold after some turns of a multiplication: in one word the product with the upper
bits of the multiplier, cut off; in the other, what the product with the lower bits has above
their weight. `Divided` says that the upper bits of the dividend have been divided, the
quotient lying behind the bits to come, in the same register. That a turn keeps them
(`MultiplyTurn`, `DivisionTurn`) is arithmetic of quotients by powers of two (`LowTurn`,
`HighTurn`, `ShiftTurn`, `DivideTurn`), of which the hardest part is that the remainder,
doubled, still fits a word. `ProductIs` and `QuotientIs` are the corrections for signs.
`ExceptionsInv` carries this through the frame: it is a copy of the operands but for the
stack pointer, and no interrupt changes it.

**The printf functions.** What they print is compared with the C standard by reading it back:
a text is cut into pieces, and each must answer its directive (`Answers`: blanks, sign,
zeros, a numeral with the right value and no superfluous zero). The model says all of it,
the digits of the code as well as the reading back, with recursive functions, and the
proofs begin with what these return. For each there is a function that satisfies its equation
(`PlaceExists`, `DigitsExist`, `ValueExists`, `ReadsExist`, `FlatExists`), by induction over a set of
numbers: a set with 0 and the successors of its members holds all numbers, which is
`NatInduct`, from the well-foundedness of < and without an operator as a parameter.
Then the digits that alt_log_private_printf finds from the highest place down have the value of
the number (`NumeralIs`), and so have the nibbles the small printf looks for from the top (`UpIs`).
`LogInv` says of each call of the log, the program's and the one that may have
interrupted it, which directives it has answered and that what it has left to read is exactly
what is left of the format behind them (`Parsed`, with `Rest`, `AfterPercent` and
`AfterZero` for a directive in the middle), so that no variable of one conversion reaches the
next. What is logged and what is lost add up to what was meant (`Balance`); a
character that is checked and has no room left means that an interrupt has logged since (`Alone`,
`Nested`), which is why each interrupt costs at most one. `PrintfInv` is about all calls at once:
the output, the buffer and the argument that is being put are cut into answers to
the first k directives of everything asked so far (`Cuts`), and the rest of the format is
what is left to read.

**The profiler.** That the counts add up is about sums over sets and searches in lists. A sum
over a finite set is one recursive function of the subset, and a sum changes in one element by what
the element changes (`SetInduct` gives induction over the subsets, by their size). `CountedInv`
says that each record is followed by one made before it, so that its list ends
(`RecordsInv`); that what a call has found stays there, whatever an interrupt puts in front of it
(`FoundInv`); that every arc is found from an entry (`ArcsFound`); and that the counts, with those an
interrupt has added between the load and the store of the call it interrupts and that are
overwritten, are the calls there were (`SumInv`). That a record put in front of a list
hides nothing behind it is the lemma about searches (`FindIn`) these rest on.

**The sampler.** `StartInv` follows the one permission to start: it is in `need_init`, or with
the call of mcount that has reset it, or has become an alarm. Only a call that resets it
when another one has done so already makes a second one, and that is the race.

**The address map.** That no byte belongs to two slaves, and that each register lies in
its slave, is arithmetic on the spans (`Spans`), once the slaves are enumerated
(`NamesOfSlaves`).

Theorems speak of the safety part of the specifications, fairness being a conjunct
they do not need.

## Where the code deviates

Each of these is a run that finds a behaviour in which a statement of a comment, a test
or an assertion does not hold. `PROJECT.json` quotes the statement.

| Run | Place | What happens |
|---|---|---|
| `row_end` | acc_bilinear_scaling.vhd:279 | the last pixel of the row above the bottom row, and of the bottom row, takes the wrong top row, since the floor of the *next* row decides whether the top row saturates |
| `stall` | acc_bilinear_scaling.vhd:445 | the RAM given back is held in reset while the last pixel of a row waits for the sink; an input row that completes meanwhile is lost |
| `reinit` | acc_bilinear_scaling.vhd:319 | the restart is only obeyed if *ready* is up in one certain cycle |
| `segment` | software_model/utils.c:46 | the corner of a segment is transposed |
| `sgdma_busy` | drivers/src/altera_avalon_sgdma.c:91 | a callback starts a transfer after the program has found BUSY clear; the program points the busy controller at its own chain |
| `sampler` | HAL/src/alt_gmon.c:169 | an interrupt between the test of *need_init* and its reset starts the sampler, which the program then starts again: one alarm, inserted twice |

The passing runs are stated beside these deviations: `OutputMatchesModelButRowEnd`
(a part of `SinkIsSatisfied`) exempts exactly the pixels of `row_end` (`RowEndDeviates`), the stalls of `scales` are
the ones below `stall`, and `Fits` asks whether the rows that are really read exist.
`SamplerStartsOnce` exempts the behaviours with the race of `sampler` (`raced`), and says
that there is no other way to two alarms. The guard of `Callback` keeps a callback from
what `CallbackInCall` does, which is a step of `AnyCallbackSpec` only; no callback of the
repository does it, and the comments of the driver do not forbid it. The profiler is not
compiled in for this board.

Other places the models follow the code in without a run that is about them, which a
reader of the bounds and guards will ask for:

- Parameters are written one by one, and the size of the output is recomputed with each.
  If the new size with the old factors is an output of one pixel, the sticky flush flag
  is set before the image comes (acc_bilinear_scaling.vhd:385). The lists of `scales`
  have no such pair (`NeverLost`, which `ScalesAssumption` evaluates).
- With two output columns and a sink that stalls for four cycles, the pipeline holds pixels of
  three output rows, and the input runs one row further ahead of the output than otherwise.
  The lists of `scales` have no such job (`RowByRow`).
- For the factors 1/32 and 1/16 the increment is cut to 0 (utils.c:117), so the output
  repeats column 0. The factors of `parts` begin with 3/32; the proofs hold for all.
- An image that is replaced stays allocated: the condition at main.c:123 is inverted.
  `OnlyImagesStay` therefore allows the images of all loads, and no property catches
  the leak.
- A blocked write ends after one silent second, whatever the timeout
  (altera_avalon_jtag_uart_write.c:187, `WriteCheck`).
- alt_fd_lock does not look at the descriptor at the high-water mark
  (alt_fd_lock.c:61, `Others`), so a lock is exclusive only towards later opens
  (`OpenRespectsLock`).
- An alarm for `TICKS - 1` ticks is due at once (alt_alarm_start.c:82), hence `Longest`;
  and a callback that stops the alarm that is next in the list makes alt_tick go on to it
  and stay there for ever, as it points to itself (alt_tick.c:102), hence the guard of
  `CallAgain`: `AlarmsKept` and `TickEnds` are about the callbacks that do not. No callback of
  the repository stops or starts an alarm.
- settimeofday multiplies ticks by the microseconds of one in 32 bits (alt_settod.c:84),
  gettimeofday in 64, so that more than 71 minutes after the start a time that is set is
  not the time that is got. `TimeIsKept` is about the times before, and no property
  catches the overflow.
- alt_busy_sleep runs the loop once too often for a rest of 0: it then turns 2^32 times,
  13 minutes on the board (alt_busy_sleep.c:112); the first such delay is of 7 minutes.
  `Delays` excludes just these delays, and no property catches them.
- An interrupt that logs takes the room alt_log_txchar has waited for, and a character is
  lost (alt_log_printf.c:98). `LogIsComplete` allows one for each interrupt. The log is not
  compiled in for this board.
- A transfer of the SGDMA clears RUN only (altera_avalon_sgdma.c:97-99); the control bits
  an earlier transfer or a registration has set stay, and the next one runs with them.
- sbrk aligns the end of the heap only at the next call (alt_sbrk.c:76) and compares the
  limit of the stack with the aligned end, so that after an increment that is no multiple
  of 4 the limit no longer follows the heap. A negative increment is not checked against
  the start.
- The total time of a report runs from before the software scaling to the report, and
  so includes saving and printing (main.c:139-185).
- alt_log_system_clock prints every INTERVAL + 1 ticks, its comment says every INTERVAL
  (alt_log_printf.c:465).
- The histogram of the sampler has one place too few for a text that is no multiple of
  the bucket; the module follows it.
- alt_dcache_flush_no_writeback rounds an unaligned region outwards and so drops changes
  of its neighbours (alt_dcache_flush_no_writeback.c); `RegionIsFlushed` is about the
  region.
- The emulation of multiplication and division reads a stack pointer that is already
  lowered, and does not write back to gp or sp (alt_exception_muldiv.S);
  `EmulatedAsHardware` leaves these registers out. A comment of alt_exception_entry.S
  says that a handler's 0 skips the instruction; code and header reissue it.

## Limits

*Checked by TLC only.* Liveness, which depends on fairness and is out of reach of the
prover, as is ENABLED: `JobsComplete`, `WritesDrain` and their like. Of `JobsComplete` everything
but that step is proved (`NeverStuck`, `ProgressBounded`). Every invariant and every action
property of the passing runs is a theorem.

*Not modelled.*

- Out-of-memory: `main` takes allocation to succeed; it is not handled by the code
  either. malloc itself is in the C library.
- Error stubs (fork, link, unlink, ...) and the lists of device classes nothing is
  registered in: without state.
- Branches that system.h compiles out: the small UART driver, semaphores of a
  multi-threaded system, direct drivers, an external interrupt controller, error
  correction of the memory.
- The percentages and the layout of a report, wording of the log, dialogue of main.
- Files of the build and of the board: pins, makefiles, a script that prints an image.
- Errors of a DMA transfer in `bilinear_scaling_hw`; the application never looks at
  them. `altera_avalon_sgdma` has them.
- An output without rows (factor so small that the height is 0): excluded by
  `DriverAssumption`; what the controller does with an empty chain is not in the
  repository.

## Plan

The order follows the data: what a wrong behaviour would corrupt first.

1. Done: the buffer and its proof; the C model and its proofs; the accelerator in its
   test bench; the driver with interrupts and DMA, the main loop, the descriptors, the
   SGDMA driver, the UART, alarms and time, the startup with interrupts and heap, and the
   address map, the calls of `alt_io`, the report of main, the caches, the
   emulated instructions, the printf functions, the log and the profiler, each with its proofs.
   The accelerator satisfies its sink, keeps to the protocol of its buffer, restarts clean,
   implements the row pipeline and never gets stuck, by proof as well.
2. To come: the regions outside `Handled` in which single properties still hold
   (narrow rows without stalls, stalls at a restart that happen to be harmless), and lemmas that
   several proofs state for themselves in one place.
