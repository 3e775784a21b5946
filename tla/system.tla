-------------------------------- MODULE system --------------------------------
(***************************************************************************)
(* The system as its software is told of it: the processor, the memory as  *)
(* each master sees it, the slaves with their addresses and interrupts,    *)
(* and the registers the drivers access.  Sizes are in bytes.              *)
(***************************************************************************)
EXTENDS Integers, FiniteSets

ALT_CPU ==
  [CPU_FREQ |-> 50000000, DATA_ADDR_WIDTH |-> 27, INST_ADDR_WIDTH |-> 27, RESET_ADDR |-> 33554432,
   EXCEPTION_ADDR |-> 33554464, BREAK_ADDR |-> 67110944, DCACHE_SIZE |-> 0, DCACHE_LINE_SIZE |-> 0,
   ICACHE_SIZE |-> 0, ICACHE_LINE_SIZE |-> 0, HARDWARE_DIVIDE_PRESENT |-> FALSE,
   HARDWARE_MULTIPLY_PRESENT |-> FALSE, HARDWARE_MULX_PRESENT |-> FALSE, HAS_DEBUG_STUB |-> TRUE]

\* The same with the old prefix, which the HAL still uses.
NIOS2 ==
  [CPU_FREQ |-> 50000000, DATA_ADDR_WIDTH |-> 27, INST_ADDR_WIDTH |-> 27, RESET_ADDR |-> 33554432,
   EXCEPTION_ADDR |-> 33554464, BREAK_ADDR |-> 67110944, DCACHE_SIZE |-> 0, DCACHE_LINE_SIZE |-> 0,
   ICACHE_SIZE |-> 0, ICACHE_LINE_SIZE |-> 0, HARDWARE_DIVIDE_PRESENT |-> FALSE,
   HARDWARE_MULTIPLY_PRESENT |-> FALSE, HARDWARE_MULX_PRESENT |-> FALSE, HAS_DEBUG_STUB |-> TRUE]

NoIrq == -1

SDRAM ==
  [BASE |-> 33554432, SPAN |-> 33554432, IRQ |-> NoIrq, ADDR_WIDTH |-> 24, BANK_WIDTH |-> 2, COL_WIDTH |-> 9,
   ROW_WIDTH |-> 13, DATA_WIDTH |-> 16, NUM_BANKS |-> 4, NUM_CHIPSELECTS |-> 1, SHARED_DATA |-> FALSE]
SGDMA_IN_M_WRITE_SDRAM ==
  [BASE |-> 33554432, SPAN |-> 33554432, IRQ |-> NoIrq, ADDR_WIDTH |-> 24, BANK_WIDTH |-> 2, COL_WIDTH |-> 9,
   ROW_WIDTH |-> 13, DATA_WIDTH |-> 16, NUM_BANKS |-> 4, NUM_CHIPSELECTS |-> 1, SHARED_DATA |-> FALSE]
SGDMA_OUT_M_READ_SDRAM ==
  [BASE |-> 33554432, SPAN |-> 33554432, IRQ |-> NoIrq, ADDR_WIDTH |-> 24, BANK_WIDTH |-> 2, COL_WIDTH |-> 9,
   ROW_WIDTH |-> 13, DATA_WIDTH |-> 16, NUM_BANKS |-> 4, NUM_CHIPSELECTS |-> 1, SHARED_DATA |-> FALSE]

SGDMA_IN ==
  [BASE |-> 67113088, SPAN |-> 64, IRQ |-> 0, ADDRESS_WIDTH |-> 32, BYTES_TO_TRANSFER_DATA_WIDTH |-> 16,
   HAS_READ_BLOCK |-> FALSE, HAS_WRITE_BLOCK |-> TRUE, BURST_TRANSFER |-> FALSE, UNALIGNED_TRANSFER |-> FALSE,
   STREAM_DATA_WIDTH |-> 8, SYMBOLS_PER_BEAT |-> 1, WRITE_BLOCK_DATA_WIDTH |-> 8]
SGDMA_OUT ==
  [BASE |-> 67113152, SPAN |-> 64, IRQ |-> 1, ADDRESS_WIDTH |-> 32, BYTES_TO_TRANSFER_DATA_WIDTH |-> 16,
   HAS_READ_BLOCK |-> TRUE, HAS_WRITE_BLOCK |-> FALSE, BURST_TRANSFER |-> FALSE, UNALIGNED_TRANSFER |-> FALSE,
   STREAM_DATA_WIDTH |-> 8, SYMBOLS_PER_BEAT |-> 1, READ_BLOCK_DATA_WIDTH |-> 8]

JTAG_UART ==
  [BASE |-> 67113248, SPAN |-> 8, IRQ |-> 2, READ_DEPTH |-> 64, READ_THRESHOLD |-> 8, WRITE_DEPTH |-> 64,
   WRITE_THRESHOLD |-> 8]
PERFORMANCE_COUNTER == [BASE |-> 67112960, SPAN |-> 128, IRQ |-> NoIrq, HOW_MANY_SECTIONS |-> 4]
ACC_BILINEAR_SCALING == [BASE |-> 67113232, SPAN |-> 16, IRQ |-> NoIrq]
PLL == [BASE |-> 67113216, SPAN |-> 16, IRQ |-> NoIrq]

\* The memory of the debugger, which is a slave that system.h does not name.
DEBUG_MEM == [BASE |-> 67110912, SPAN |-> 2048, IRQ |-> NoIrq]

\* What is linked where: the code at the reset address, and all the rest.
RESET_REGION == [BASE |-> 33554432, SPAN |-> 32]
SDRAM_REGION == [BASE |-> 33554464, SPAN |-> 33554400]

\* The standard streams are all one device.
STDIN_BASE == 67113248
STDOUT_BASE == 67113248
STDERR_BASE == 67113248

-----------------------------------------------------------------------------
(* The slaves and their registers, as an offset and a width *)

Slave ==
  [sdram |-> SDRAM, debug_mem |-> DEBUG_MEM, performance_counter |-> PERFORMANCE_COUNTER, sgdma_in |-> SGDMA_IN,
   sgdma_out |-> SGDMA_OUT, pll |-> PLL, acc_bilinear_scaling |-> ACC_BILINEAR_SCALING, jtag_uart |-> JTAG_UART]

\* STATUS, VERSION, CONTROL and NEXT_DESC_POINTER, counted in words.
SgdmaRegisters == {<<4 * n, 4>> : n \in {0, 1, 4, 8}}
\* DATA and CONTROL.
UartRegisters == {<<4 * n, 4>> : n \in {0, 1}}
\* PERF_END and PERF_BEGIN of a section write the first two words of its four, and the third counts.
CounterRegisters == {<<4 * (4 * section + n), 4>> : section \in 0 .. 3, n \in 0 .. 2}
\* The factors; their reciprocals, the size, and the control byte.
AccRegisters == {<<0, 1>>, <<1, 1>>, <<2, 2>>, <<4, 2>>, <<6, 2>>, <<8, 2>>, <<10, 1>>}

Registers ==
  [sdram |-> {}, debug_mem |-> {}, performance_counter |-> CounterRegisters, sgdma_in |-> SgdmaRegisters,
   sgdma_out |-> SgdmaRegisters, pll |-> {}, acc_bilinear_scaling |-> AccRegisters, jtag_uart |-> UartRegisters]

HoldsAddress(region, addr) == region.BASE <= addr /\ addr < region.BASE + region.SPAN

-----------------------------------------------------------------------------
(* What the software takes for granted *)

\* The masters of the controllers see the memory where the processor does, so that a pointer of the
\* program is an address of theirs; the memory is as large as its rows and columns.
ASSUME OneMemory ==
  /\ SGDMA_IN_M_WRITE_SDRAM = SDRAM /\ SGDMA_OUT_M_READ_SDRAM = SDRAM /\ NIOS2 = ALT_CPU
  /\ SDRAM.SPAN = SDRAM.NUM_CHIPSELECTS * SDRAM.NUM_BANKS * 2 ^ (SDRAM.ROW_WIDTH + SDRAM.COL_WIDTH)
                    * (SDRAM.DATA_WIDTH \div 8)
  /\ SDRAM.ADDR_WIDTH = SDRAM.BANK_WIDTH + SDRAM.ROW_WIDTH + SDRAM.COL_WIDTH
  /\ SDRAM.BASE + SDRAM.SPAN <= 2 ^ ALT_CPU.DATA_ADDR_WIDTH
  /\ ALT_CPU.DATA_ADDR_WIDTH <= SGDMA_IN.ADDRESS_WIDTH /\ ALT_CPU.DATA_ADDR_WIDTH <= SGDMA_OUT.ADDRESS_WIDTH

\* The code at the reset address and everything else are two parts of the memory, with the code for
\* exceptions at the beginning of the second.
ASSUME LinkedInMemory ==
  /\ RESET_REGION.BASE = ALT_CPU.RESET_ADDR /\ RESET_REGION.BASE = SDRAM.BASE
  /\ RESET_REGION.BASE + RESET_REGION.SPAN = SDRAM_REGION.BASE
  /\ SDRAM_REGION.BASE = ALT_CPU.EXCEPTION_ADDR
  /\ SDRAM_REGION.BASE + SDRAM_REGION.SPAN = SDRAM.BASE + SDRAM.SPAN
  /\ HoldsAddress(Slave["debug_mem"], ALT_CPU.BREAK_ADDR)

\* One controller writes what the other one reads, a pixel at a time.
ASSUME OnePixelAtATime ==
  /\ SGDMA_IN.HAS_WRITE_BLOCK /\ SGDMA_OUT.HAS_READ_BLOCK
  /\ SGDMA_IN.STREAM_DATA_WIDTH = 8 /\ SGDMA_OUT.STREAM_DATA_WIDTH = 8
  /\ SGDMA_IN.WRITE_BLOCK_DATA_WIDTH = 8 /\ SGDMA_OUT.READ_BLOCK_DATA_WIDTH = 8
  /\ Cardinality({SGDMA_IN.IRQ, SGDMA_OUT.IRQ, JTAG_UART.IRQ, NoIrq}) = 4
  /\ {STDIN_BASE, STDOUT_BASE, STDERR_BASE} = {JTAG_UART.BASE}
===============================================================================
