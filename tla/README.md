# Formal models of the MPC5748G target firmware

TLA+ models of the CW308T-MPC5748G demonstration firmware (`src/firmware`), checked
with TLC on small instances and, where listed, proved with TLAPS for every value of
the constants.  The target is bare metal: no operating system, no interrupts in use.
What makes it worth modelling is what happens *around* its polling loops: two other
cores that start and run on the same memory, peripherals that change their registers
between two accesses of the driver, and hosts and testers that send when they like.

## 1. The system

Three processor cores run three programs, built from one HAL:

```
        host (UART)                tester (CAN)
            |                          |
   +--------v--------------------------v--------+      +------------------+   +----------+
   | core 0  Z4_0/simpleserial_Z4_0.c  main     |      | core 1  Z4_1     |   | core 2   |
   |  boot prompt -> turn_on_cores ------------------->|  startup.S, main |   |  Z2_2    |
   |  loop: can0_rx_ready / can0_rx / can0_tx   | gate |  polls gate 0,   |   |  startup |
   |        checkchar / simpleserial_get        |<---->|  increments word,|   |  idle    |
   |  commands: k p h  q w l  j g m n           | word |  Reset_Gate      |   |          |
   +--------------------------------------------+      +------------------+   +----------+
                 shared SRAM (sections m_data, shared) and SEMA42 gates
```

### Inventory

| component | state it keeps | operations | what is hard | what makes it correct |
|---|---|---|---|---|
| shared-memory mailbox (`core_example`, Z4_1 `main`, `hal/.../sharedmem.c`) | gate 0, the reset register's state machine, `sharedram_uint32[0]`, `cnt` | lock, poll, increment, two-pattern reset | two unsynchronised cores, a time-out whose result is ignored, an ECC fill over the word | exclusive access, exactly one increment per request, every request ends |
| command interface (`simpleserial/simpleserial.c`) | table of commands, the line being received | `simpleserial_addcmd`, `simpleserial_get`, `hex_decode`, `simpleserial_put` | resynchronisation after bad lines, lengths at the limit | buffers hold, a good line is always executed, a bad one never |
| CAN demo (`hal/.../can.c`, `main`) | message buffers 0 and 4, flag, lock, `RxDATA`, `RxLENGTH`, `tx_buffer`, `pwok` | `can0_init_rx`, `can0_rx_ready`, `can0_rx`, `can0_tx`, password check | frames that end between two accesses, self-reception, CODE rewritten by bit-field stores, blocking serial commands | no torn or repeated request, right verdicts in order, requests answered |
| start-up (`hal/.../startup.S`, `mem.ld`) | SRAM contents and ECC, which cores run | ECC fill, `.data` copy, `.bss`, `turn_on_cores` | cores start side by side over overlapping ranges | no use before valid ECC, nobody's data overwritten |
| UART driver (`hal/.../linflexd_uart.c`, `mpc5748g_hal.c`) | DRFRFE, DTFTFF, the data registers, `UARTFirstTransmitFlag` | `getch`, `putch`, `flush`, `checkchar` | a byte between the clearing of the flag and the read, the first transmission | nothing invented, nothing lost by a paced host, sent once and in order |
| crypto commands (`h`, `k`, `p`) | `enc_module`, the key of each engine, whether mbedTLS has tables, the program in RAM | `set_module`, `get_key`, `get_pt` | order of commands over engines, engines that are not there, early returns around the trigger | an answer is made with the key last given to the selected engine; trigger low between commands |
| password commands (`w`, `q`, `l`) | `pwgroup`, group selection and lock bits of the PASS module | `set_pwgroup`, `set_pw`, `set_pwlock` | two selections that must agree | a group is unlocked by its own password only |
| monitor (`m`, `n`) | where the dialogue is, address, length | `uart_get_u32`, upload, dump, execute, read, write, `flush` | discarding input that is still to come, ends of lines that may or may not be part of a number | numbers are read as spelled, each operation is the one asked for |
| glitch targets (`g`) | loop counters | two counting loops, a flash reader | physical disturbances of any counter, at any point | no false report, no bad round taken for good |
| clock and mode entry (`mode.c`, `clk.c`) | MC_CGM dividers, PLL, run mode | `system16mhz` (called), `system40mhz`, `system160mhz` | hardware switches the clock while the code goes on; a second entry by `turn_on_cores` | no domain overclocked, the external clock kept |
| platform layer (`mpc5748g_hal.c`) | LEDs, trigger | `platform_init`, `trigger_high/low`, `putch`, `getch` | order of initialisation | clock before prompt (in Boot), pin (in Commands) |
| software AES (`tinyaes128.c`) | round keys | key expansion, encrypt, decrypt | listed tables, index arithmetic | equal to FIPS 197 |
| mbedTLS AES (`hal/mpc5748g/aes.c`) | round keys, generated tables | `mbedtls_aes_setkey_enc`, ECB encryption, `aes_gen_tables` | tables that share memory with their own temporaries | equal to FIPS 197; tables right |
| interrupt set-up (`MPC57xx__Interrupt_Init.c`, vectors) | INTC registers | dummy handlers | no source is enabled | not modelled |
| core 2 program | a counter | idle loop | only its start-up has effects (in CoreStartup) | partly |
| `Z4_RAM`, `simpleserial-base` | none | templates for users; two entry points | either may be missing | in Commands, what the firmware sees |
| `crypto/`, register headers, `docs/` | - | vendored or generated | - | not modelled |

Shared state is the word and the gate (cores 0 and 1), SRAM (all cores while they
start), and the peripheral registers (a core and the hardware).  `simpleserial_get`
blocks core 0, so that the CAN buffers fill while a host is typing.

## 2. Modules

Each component is one module named after it.  An action is one access that another
actor can observe (register, gate, word, message buffer), or one character taken from
`getch`; what nobody else can observe in between is merged into it.  Names of actions,
variables and operators are those of the code where there are any.  Variables marked
*history* in a module are read by no action of the program.

| module | models | state <-> code |
|---|---|---|
| `Mailbox` | `core_example` (Z4_0), `main` (Z4_1), `Lock_Gate`, `Reset_Gate`, the prompt, the fill over the word | `gate` is `SEMA42.GATE[0]`, `rstgt` the RSTGSM state behind `SEMA42.RSTGT`, `word` is `sharedram_uint32[0]`, `pc0`/`pc1` the program points, `load1` the register core 1 increments, `cnt` as in `Reset_Gate` |
| `Handoff` | abstract: the word has one owner, who may change it once per turn | instantiated by `Mailbox` |
| `SimpleSerial` | `simpleserial_addcmd`, `simpleserial_get`, `hex_decode`, acknowledgement | `commands` as in the code, `ascii_buf` its filled part, `cmd` the index `c`, `phase` the place in the function |
| `LineServer` | abstract: lines in, at most one call per line, its answer before the next | instantiated by `SimpleSerial` |
| `CanDemo` | `can0_rx`, `can0_tx`, the CAN half of `main`'s loop, FlexCAN MB 0 and MB 4 | `mb0`, `mb4`, `iflag`, `code`, `locked` are registers; `rx` is `RxDATA`/`RxLENGTH`; `loaded` the word `can0_tx` is rewriting |
| `Responder` | abstract: verdicts are right and never go back | instantiated by `CanDemo` |
| `CoreStartup` | `startup.S` on each core with its linker script, `turn_on_cores` | `mem` says what each 32 KB block holds, `next` how far a fill has come, `size` how many blocks a core's `.data` begins |
| `Clock` | `mode.c` write by write and the mode entry hardware | `reg` holds the dividers, `RFDPHI`, the mode configurations and `MCTL`; `mtrans` is `S_MTRANS`, `sysclk` what it switches |
| `Boot` | `CoreStartup` and `Clock` together: `platform_init`, the prompt, the cores | |
| `Uart` | port 0 of the UART driver and the controller | `BDRM`, `DRFRFE`, `DTFTFF` are registers, `first` is `UARTFirstTransmitFlag`, `flushing` tells the two callers of `rxLINFlexD_0` apart |
| `Monitor` | `uart_get_u32`, `monitor_mode`, `monitor_fast`, `flush`, and three kinds of host | `rx` is the receive buffer, `ch`, `addr`, `len`, `buf`, `started` are the locals of that name (`len` is also `val` of `w`), `second` tells the two calls of `uart_get_u32` of a command apart, `prompt` what the host has been asked for |
| `Commands` | `set_module`, `get_key`, `get_pt`, `set_pwgroup`, `set_pw`, `set_pwlock` | variables named as in the code; `mbed` is the context's round keys, `PASS` the registers of the module, `pc` where in a handler the trigger pin can change |
| `CipherService` | abstract: each engine has a key of its own, `p` answers with the selected engine | instantiated by `Commands` |
| `Glitch` | `glitch_example`, `glitch_example2`, `read_flash` and a host that disturbs them | `loop` holds the counters, `glitches` and `ran` are *history* |
| `Console` | `Commands` and `Glitch` together: `glitch_call`, one trigger pin | |
| `Aes` | reference: FIPS 197, the S-box computed from inverses in GF(2^8) | - |
| `TinyAes` | `tinyaes128.c`, tables as listed | operators named as the functions |
| `MbedAes` | `aes.c`: generated tables, key schedule, encryption | the same; a word is its bytes, least significant first |
| `Engines` | `Console` with `TinyAes` and `MbedAes` as its engines | states facts about single bytes, which TLC evaluates and proofs use |
| `MbedTables` | the last loop of `aes_gen_tables`, with `pow` and `log` where they lie | `RT0`, `RT2`, `RT3` |
| `MC*` | instances for TLC | |
| `*Proofs` | theorems about the module of that name; those about `Boot` are in `CoreStartupProofs`, those about `Console`, `Glitch`, `TinyAes` and `MbedAes` in `CommandsProofs` | |
| `Recursion` | induction and recursion over the naturals, for the proofs | |

Modules end with their properties.  Definitions introduced by "faulty variant" are
not used by any specification: each replaces an action by a plausible bug (a guard
dropped, a flag not cleared, one iteration too many) and shows that a property is
able to fail.

## 3. What is checked

| run | what it shows |
|---|---|
| `mailbox` | The word is touched by core 1 only under the gate while core 0 waits (`WordExclusion`); the value stored comes from the current word (`NoLostUpdate`); a request that meets core 1 polling and is locked at the first try is answered with exactly one increment (`ExactReply`); nobody else writes the word meanwhile (`AnswerHasAuthor`); without core 1 the command hangs instead of returning an answer nobody made; with the cores on it returns; the protocol refines `Handoff`. |
| `mailbox_lost_request` | Violated, see finding 1. |
| `simpleserial` | Nothing is written past the buffer; after any garbage a complete good line is executed (`LineExecuted`, from `InStep` and `Aligned`); a line of the wrong length is not (`WrongLengthIgnored`); the parser, with the table that its registrations leave, refines `LineServer`. |
| `can` | With a tester that never waits: no request handled twice or torn, and every response on the bus is the right verdict, never older than the last (`Responder`).  With one that waits, if no frame ends between the accesses of `can0_rx`: exactly one answer each (`OneAnswerEach`), and each comes (`RequestAnswered`). |
| `can_lost_request` | Violated without that assumption, finding 2. |
| `startup` | Whatever the relative speed of the cores and the size of each `.data`, no memory is used before its ECC is valid, the copy of a size that is loaded 64 KB too large included; the data of cores 0 and 1 survives and no core's data reaches the shared section.  No clock domain runs faster than `mode.c` says it may, for each of its set-ups, and turning on the cores leaves the first core on the external clock. |
| `startup_overlap` | Violated for core 2, finding 3. |
| `uart` | At any pace of the host no byte is invented; a host that waits until its byte was taken loses none, by `getch` or `flush`; what is written leaves once and in order, and `putch` returns. |
| `monitor` | Whatever a host types, the number `uart_get_u32` returns is the one its characters spell (`NumberExact`: skipping, padding and the eighth digit against a definition that knows none of them).  For a host that is careful about ends of lines each upload, dump, write, read and execution is the one it asked for (`JobExact`), `flush` throws away nothing but ends of lines, and every operation ends. |
| `monitor_terminated` | Violated for a host that ends commands and numbers as the README says, finding 4. |
| `commands` | Any order of the commands over all engines: an answer of `p` is the selected engine's encryption under the key last given to it, an engine that was given none promises nothing, and one that is not there returns the plaintext (`CipherService`).  Both AES implementations, computed from their tables, equal FIPS 197 under the keys they hold, and `tinyaes128` decrypts what it encrypts (`EnginesAreAes`); the facts about bytes of `Engines` hold.  A group is unlocked by its own password only (`UnlockedOnlyByPassword`).  The trigger is low between commands, however a handler was left.  `glitch_example2` reports nothing undisturbed and takes no round for good that ran its body too often or too seldom, with two disturbances (`ReportsGlitches`). |
| `aes_reverse_tables` | Violated, finding 5. |

### Bounds

- `Mailbox`: words of three bits (the code: 32), so that increments wrap; `Reset_Gate`
  gives up after `PollLimit = 1` instead of 10, so that both ends of the race
  with the register are reached.  The number of requests is not bounded.
- `SimpleSerial`: lines of up to 7 characters, two more than the longest command
  (a letter and 2 * 2 digits) and enough for a line that contains another one;
  `MAX_SS_CMDS` is 4 and `MAX_SS_LEN` 3 with six registrations, one too long, one
  whose name is taken and one too many.  One character stands for each class the
  code distinguishes (two for digits, with different values).  The stream of lines
  is not bounded.
- `CanDemo`: three requests, the least with which a response can be overtaken twice;
  proofs cover any number.  `Buses` says which testers and buses are considered: a tester
  that does not wait (`hurried`), one that waits (`patient`), and one that waits on a bus
  whose frames do not end inside `can0_rx` (`undisturbed`).
- `CoreStartup`: the real memory map, in 32 KB blocks: all borders of the linker
  scripts are multiples of that, and bit 15 of a size is what the loading of
  `__DATA_SIZE` depends on.  `Sizes`: every `.data` that fits core 0's 64 KB and core 1's
  128 KB; for core 2 up to 64 KB, because `DataAssumption` leaves two blocks before the
  shared section.  (A `.data` of more than 96 KB on core 2 would be copied into that section.)
- `Clock`: the three set-ups, with external clocks of 16 and 40 MHz, from the divider
  values after reset.
- `Commands`: two keys and one block (one of each from FIPS 197), two passwords for four
  groups, and hosts that use one family of commands each (`MCMenus`: ciphers with
  uploads, passwords, and those that drive the trigger pin with `g`); the families share no
  other variable than those of the running handler.  The number of commands is not bounded.
- `Glitch`: loops of `N = 2` turns instead of 500 and 1000, the trigger raised every
  second row instead of every fiftieth, two disturbances per call, each of which leaves any
  counter at any value up to one past its end.
- `MbedTables` runs until the first logarithm that it needs is overwritten.
- `Monitor`: numbers of two binary digits (eight hexadecimal ones in the code), one of
  which is also a command letter as `d` and `e` are; shorter and full numbers with and
  without a terminator, programs of up to three bytes that contain a command and an end
  of line.  The free host types eight different characters, up to `MaxText = 4` for
  one number; the number of commands is not bounded.
- `Uart`: five bytes in, four out; the driver keeps at most one of each, proofs
  cover any number.

Deadlock checking is off only in `startup` and `startup_overlap` (cores stay in `main`),
`aes_reverse_tables` (the loop ends),
`uart` (a `getch` waits for ever once the host has stopped sending) and the two `monitor` runs (a
program that is executed need not return).

### Fairness

- Processors execute: weak fairness of each core's program.
- Hardware does what it was told: weak fairness of the arming of the reset
  register, of a frame that is being sent or waits for an idle bus, of the UART's transmitter.  Errors on
  the bus and arbitration lost for ever are not modelled.
- Hosts, users and testers need not do anything, with two exceptions: in `CanDemo` the
  host ends each serial command that it has started (`EndSerial`), because
  `simpleserial_get` blocks by design.  In `Monitor` the careful host sends the characters
  it has begun to send and answers the prompts of its own command; it need not issue one.
- `Mailbox` has one strong fairness, of `LockGateTaken`: `Lock_Gate` reads the gate
  back directly after it writes it, and core 1 would have to notice the lock, do its
  work and reset the gate between these two accesses *every* time to keep core 0
  retrying for ever.

## 4. What is proved

`tlapm` checks these for every value of the constants that the named assumptions allow.

| module | argument |
|---|---|
| `MailboxProofs` | `IInv` is inductive: the gate belongs to the request that locked it (`GateHeldByRequest`), core 1 works only under it and once (`GateHeldForWork`), cores act only when booted (`BootOrder`), and a request that met core 1 polling is followed from the write to the reply (`QuietProgress`).  `ExactReply` alone is not inductive: it says nothing until the reply, and `QuietProgress` says what the word is in each phase before.  From it all safety properties and the step simulation of `Handoff`. |
| `SimpleSerialProofs` | `SInv`: types, `BufferFits`, `InStep`, `Aligned` and from them `LineExecuted`, for any table, limits and input. `InStep` alone does not give `LineExecuted`; `Aligned` says that a line which is still a candidate has been received from its first character.  `LInv` adds what the refinement of `LineServer` needs: the table is what the registrations so far are to leave (`TableInv`), and a call is in progress exactly while its command runs or is answered.  `WrongLengthIgnored` follows if no letter of a command is a hexadecimal digit, as none of the firmware's is. |
| `CanDemoProofs` | `CInv = TypeOK /\ RxInv /\ TxInv` is inductive for any number of requests: what the lock and the flag of MB 4 say about what has been read, and what is in MB 0 or on the way from it.  `HandledOnce` and the refinement of `Responder` follow.  For a tester that waits on an undisturbed bus, `OneRequest` follows its request through the buffers, and gives `OneAnswerEach`. |
| `CoreStartupProofs` | For any cores and any memory map: no use before valid ECC if each fill covers the core's own data and the first core's the shared section; a core keeps its data if only the first core's fill covers it.  That assumption is what core 2's script breaks.  The lemmas about the copy (`CopiedInReach`) do the arithmetic of a size that is loaded too large.  A boot is a start-up: every step of `Boot` is one of `CoreStartup` or leaves its variables alone, so both theorems hold with the clock set-up in front.  `ClockInv` says of each set-up how far the writes have come, what they have set, and that the processor stays on the reset clock until its mode transition: what `DomainsInRange` (for crystals up to 40 MHz) and `ExternalClockKept` rest on, because the hardware may switch at any later moment. |
| `CommandsProofs` | `CmdInv` is inductive: the pin's state at each place of a handler, what the buffer holds there (`BufferInv`), that the PASS module has the selected group while it compares (`GroupInv`), that a context with round keys has tables (`TablesInv`).  From it the trigger, the unlocking and the refinement of `CipherService`, which needs that both implementations compute AES (`AreAes`); that is proved too, next row.  All of it is proved again for `Console`, that is with `g` among the commands, from `CmdInv /\ GlitchInv`.  `GlitchInv` says at each place of a loop how the counters relate to the turns that were run and to the disturbances so far; `ReportsGlitches` follows for loops of any length and at most two disturbances of a call.  A wrong round that passes needs three: one that upsets a loop, and one for each of the two counts that are compared. |
| `CommandsProofs`, first part | Both implementations are AES, for all 2^128 keys and blocks.  *Keys:* `IsSchedule` says what words a prefix of a schedule has; FIPS 197, which adds a word at a time, `KeyExpansion`, which looks back through indices, and mbedTLS, which adds four words at a time, each extend it, so that they agree (`SchedulesAgree`).  *Rounds:* one word of mbedTLS's table round is one mixed column (`FroundWord`), the sum `MixColumns` of `tinyaes128.c` forms with `Tmp` and `Tm` is the product with the matrix (`MixColumnIs`), and substituting before or after shifting rows is the same; so a turn of each is a round of the standard (`TurnsAgree`), and ten of them are the cipher (`TinyAesComputesAes`, `MbedAesComputesAes`).  *Decryption:* `InvMixColumn` undoes `MixColumn` because each of its rows, applied to the columns of the matrix, gives a row of the unit matrix (`InvRowOfMixed`); each turn of `InvCipher` undoes one round (`UndoneStep`), hence `TinyAesDecrypts`.  Then `EnginesAreAesHolds`: whatever round keys a history of commands leaves in an engine belong to a key, and the engine computes AES under it. |
| `UartProofs` | `UInv`: what the flags mean at each point of the driver.  Nothing invented, nothing lost by a paced host, sent in order, for streams of any length. |
| `MonitorProofs` | First the conversion, for every base, width and set of digits: `ascii_to_u32`, a sum over the places, gives the value of the digits read from the left (`SumsAreValues`), which fits the width (`ValueBelowTop`), and padding with zeros on the left does not change it (`PaddedValue`).  Then `NInv`: the digits that `uart_get_u32` has kept spell what all its characters spell, hence `NumberExact`.  Then `JInv`, which follows an operation of the careful host: `Pending` are the characters on their way, and each part of `DInv` says, for one place of the dialogue, which prompt is open and what `Pending` is - the rest of a number and what ends it (`Reading`), at most one `\n` (`FlushInv`, `Unanswered`), the bytes that an upload still has to store (`DataInv`).  `JobExact` alone is not inductive: it speaks of the last moment only.  With `JInv` it holds for numbers of any width and uploads of any length, and so does `OnlyNewlinesFlushed`. |
| `Recursion` | Induction over the naturals (`NatSetInduction`) with a set for the predicate, and the existence of a function that runs a step (`StepsExist`), from which each recursive function of a model is shown to satisfy its equation (`PowerUnfold`, `ValuesUnfold`, `SumsUnfold`, `FitsUnfold`).  The schedules and rounds of AES rest on the same two (`ScheduleExists`, `EncryptionExists`). |

The assumptions are named in the modules that declare the constants.  Those worth
knowing: `DataAssumption` of `CoreStartup` (above), `CrystalsAssumption` of `Boot` (at most
the 40 MHz of the board), and in `Monitor` that digits are neither blanks nor ends of lines
(`DigitsAssumption`), that the digit `0` counts nothing (`ZeroAssumption`) and that the
numbers that hosts send have at most `Width` digits (`NumbersAssumption`); a free host
types longer ones.

`Engines` has two kinds of assumptions.  `EnginesAssumption` says which operators the
constants of `Commands` stand for (`TinyKeys` is `KeyExpansion` and so on), and that
`NoKey`, what an address without a key holds, is not a schedule.  The others (`XorFacts` to
`InverseFacts`) name no constant: they are statements about single bytes, pairs of bytes or
triples of half bytes, such as what the listed and generated tables contain and that `Multiply` is
linear.  TLC evaluates them completely in run `commands`, so that together with the proofs
nothing about AES is left open.  Exclusive or is the one operator that is only computed: on
half bytes its associativity is such a fact, and the proofs lift it to bytes, words
and blocks.

Only model-checked:

- every liveness property (`JobReturns`, `RequestAnswered`, `PutReturns`, `JobEnds`),
  which rests on fairness;
- what the five runs of section 5 violate.

## 5. Findings

1. **The reset of a gate does not mean that core 1 is done.** The comment in
   `core_example` (`Z4_0/simpleserial_Z4_0.c:548`) says so.  Core 1 re-reads the gate after resetting it and
   resets it again if it is locked; a lock that core 0 has taken for the
   next request in between is reset unserved, and the reply is the word that was sent.
   Run `mailbox_lost_request`.
2. **A CAN request can be lost.** `can0_rx` releases MB 4 and only then clears its
   flag (`can.c:153-154`): a frame that ends in between is never read.  Because the
   device receives its own responses, it regularly reads the buffer just when a
   tester that has its answer sends the next request.  Run `can_lost_request`.
3. **Core 1's ECC fill covers core 2's data.** `Z4_1/mem.ld` gives start-up an SRAM
   range of 512 KB that contains core 2's `m_data` and the shared section, and the cores start
   together.  Run `startup_overlap`.
4. **A terminated command or number confuses monitor mode.** The README (line 65) says
   that its commands end with `\r` or `\n`.  After `u`, `d` and `e` the code flushes and reads a number: an
   `\r` that comes after the flush is an empty number, so that `e` executes address 0.
   A length of eight digits is over before its terminator, which becomes the first
   byte of the upload.  Run `monitor_terminated`; `NumberEnds` in `Monitor` says what works.

5. **mbedTLS generates wrong tables for decryption.** To save stack, `hal/mpc5748g/aes.c:400-401`
   puts the arrays of powers and logarithms into `RT2` and `RT3`; the loop that fills these
   still looks products up in them.  The eighth entry, `RT0[7]`, is the first wrong one.
   Encryption does not use these tables and this firmware does not decrypt; a project
   that calls `mbedtls_aes_setkey_dec` would get wrong plaintext.  Run `aes_reverse_tables`.

Met in passing, not run:

- `can0_tx` does not wait for its message, as a comment in `main` says it does
  (`Z4_0/simpleserial_Z4_0.c:745`); that is how a response can be replaced by a later one.
- The README (line 54) says that `l` checks the lock status; `set_pwlock` also sets `PGL`.
- `p` with an engine that is not available answers with the plaintext and status 0.
- `h` calls `hsm_setkeyidx` for `h2x`, a function of an HSM that is not built in.
- `system40mhz` and `system160mhz` configure only DRUN, so that after them `turn_on_cores`
  (RUN1) would drop the processor to the reset clock; and `system16mhz` called after
  `system160mhz` would run S80 and FS80 undivided until the clock has been switched.
- `main` gives FlexCAN 0 the peripheral configuration `RUN_PC[1]`, which nothing writes.
- The dividers of `SC_DC1` and `SC_DC5`, which "must be equal at all times", differ
  for the few writes between them; `DomainsInRange` requires it once the reset clock is left.
- `simpleserial.h` speaks of at most 10 commands and the
  code allows 20; of lengths of up to 64 bytes, and the code refuses 64.

## 6. What is abstracted

- CAN arbitration between two frames with the same ID is reduced to an idle bus being
  taken by either side; bit errors, a DLC above 8 and other nodes are left out.
  The kind `undisturbed` in `can` is an assumption about the bus that the code does not
  establish: it separates what the polling scheme promises from finding 2.
- The gate's lock by other masters, and the reset of other gates, do not occur: gate 0
  and one locking core are all the firmware uses.  `sharedmem_init` (no caching of the
  section) is taken as done, so accesses to the word are atomic and in program order.
- Callbacks are atomic in `SimpleSerial`; their own behaviour is in `Mailbox`, `Commands`,
  `Glitch` and `Monitor`.  `simpleserial_put` sends its line as a whole.
- The fill of a whole range over the shared word is one step in `Mailbox`; block by
  block in `CoreStartup`.
- `Monitor` keeps what a command writes, not the memory it lands in: an upload over the
  firmware's own data, and what an executed program does, are not modelled.  Its hosts type
  one character at a time and wait until it was taken; what a faster host loses is in `Uart`.
- `Commands` takes the round keys at address 0, which mbedTLS reads without a key, as unknown
  words or as an exception, and the program in RAM as any function of key and block.  A new
  upload drops the key of the program before it.
- `Clock` has the PLL as one clock with its post divider; a transition always succeeds.
- Baud rates, pads and LEDs.

### Not modelled

The tree has some 177,000 lines, of which more than nine tenths are vendored (mbedTLS with TLS,
micro-ecc, AVR-Crypto-Lib, the register headers) and not built into the firmware or without
behaviour.  The firmware's own code is about 3,500 lines without its copy of mbedTLS's AES and the vector tables, and the modules above
stand for most of what has control in it.  Left out of it:
`can0_init_tx`, `can0_set_id`, `clk.c`, `enter_STOP_mode` and UART ports 1 and 2, which nothing calls; the
interrupt set-up, as no source is enabled; flash and register initialisation before the
fill; decryption, longer keys and modes of operation of mbedTLS's AES, which nothing calls.

## 7. Open work

1. `NumberExact` for a number that is longer than `Width` digits: the rest of it is read
   as the next number or command, which `NumberExact` allows and no property describes.
2. mbedTLS decryption with tables that are generated before their temporaries are
   overwritten, against `TinyAes`, as a check of a repair of finding 5.
3. The files that nothing calls yet (`clk.c`, UART ports 1 and 2, `can0_init_tx`), once a
   project built on this firmware does.
