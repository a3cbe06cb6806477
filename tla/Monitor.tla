-------------------------------- MODULE Monitor --------------------------------
(***************************************************************************)
(* monitor_mode and monitor_fast, the dialogues that load, dump, change    *)
(* and execute SRAM, with uart_get_u32, which reads a number, and flush,   *)
(* which drops what has arrived.  Taking a character is a step; the host   *)
(* types meanwhile, one character ahead, which the receive buffer keeps.   *)
(* The two dialogues differ in what they print, not in what they read and  *)
(* when they prompt for it, but for the C that only monitor_fast prints.   *)
(*                                                                         *)
(* There are three hosts: "readme" ends commands and numbers with \n or    *)
(* \r and answers prompts, as the README tells it; "careful" does so too,  *)
(* but is particular about ends of lines; "free" types what it likes.      *)
(***************************************************************************)
EXTENDS Integers, Sequences

CONSTANTS
  Base, Width,   (* of the numbers: 16 and 8 in the code                    *)
  Nibble,        (* the digits with their values                            *)
  Numbers,       (* bound: the numbers that hosts send, digit by digit      *)
  Bytes,         (* bound: the bytes of the programs that hosts send        *)
  Free,          (* bound: the characters that a free host sends            *)
  MaxText,       (* bound: how many characters it sends for one number      *)
  Hosts          (* the hosts to consider                                   *)

Newlines == {"lf", "cr"}
Prompted == {"u", "d", "e"}
InLine == {"w", "r"}
NoChar == "none"
Chars == Newlines \union {"sp", "q", "?"} \union Prompted \union InLine
         \union DOMAIN Nibble \union Bytes \union Free

(* The powers of Base, and how many numbers there are. *)
Power[k \in 0 .. Width] == IF k = 0 THEN 1 ELSE Base * Power[k - 1]
Top == Power[Width]

ASSUME BaseAssumption == Base \in Nat \ {0} /\ Width \in Nat \ {0}
ASSUME NibbleAssumption == Nibble \in [DOMAIN Nibble -> 0 .. Base - 1]
ASSUME ZeroAssumption == "0" \in DOMAIN Nibble => Nibble["0"] = 0
ASSUME DigitsAssumption == DOMAIN Nibble \intersect (Newlines \union {"sp", NoChar}) = {}
ASSUME NumbersAssumption ==
  \A n \in Numbers : n \in Seq(DOMAIN Nibble) /\ Len(n) \in 1 .. Width
ASSUME HostsAssumption == Hosts \subseteq {"free", "careful", "readme"}
ASSUME MaxTextAssumption == MaxText \in Nat /\ NoChar \notin Bytes \union Free

(* An operation: the command, its number or numbers, and what was stored.  *)
NoJob == [cmd |-> NoChar, addr |-> 0, arg |-> 0, stored |-> <<>>]

VARIABLES
  host,      (* which host is at the other end                              *)
  rx,        (* the receive buffer                                          *)
  outbox,    (* the characters the host is about to send                    *)
  expects,   (* the prompt it answers next; C when it is free to command    *)
  want,      (* the operation it is asking for                              *)
  pc,        (* where the monitor is                                        *)
  prompt,    (* the prompt it has shown and that was not answered yet       *)
  ch,        (* the command                                                 *)
  second,    (* the number being read is the command's second one           *)
  started, buf, (* uart_get_u32: its variables                              *)
  text,      (* history: the characters that it has taken                   *)
  addr, len, (* the numbers of the command                                  *)
  stored,    (* what the command has written: addresses and values          *)
  done       (* history: the operation that was carried out last            *)

hostVars == <<host, outbox, expects, want>>
number == <<started, buf, text>>
vars == <<hostVars, rx, pc, prompt, ch, second, number, addr, len, stored, done>>

TypeOK ==
  /\ host \in Hosts /\ rx \in Chars \union {NoChar} /\ outbox \in Seq(Chars)
  /\ expects \in {"C", "A", "L", "B", "R"} /\ prompt \in {"none", "C", "A", "L", "B", "R"}
  /\ started \in BOOLEAN /\ second \in BOOLEAN
  /\ pc \in {"left", "flush", "command", "number", "data", "ready", "dump", "run", "gone"}
  /\ ch \in {NoChar} \union Prompted \union InLine
  /\ buf \in Seq(Chars) /\ Len(buf) < Width
  /\ addr \in 0 .. Top - 1 /\ len \in 0 .. Top - 1 /\ Len(stored) <= Top

Init ==
  /\ host \in Hosts
  /\ rx = NoChar /\ outbox = <<>> /\ expects = "C" /\ want = NoJob
  /\ pc = "left" /\ prompt = "none" /\ ch = NoChar
  /\ second = FALSE /\ started = FALSE /\ buf = <<>> /\ text = <<>>
  /\ addr = 0 /\ len = 0 /\ stored = <<>> /\ done = NoJob

-----------------------------------------------------------------------------
(* The host. *)

HostSend ==
  /\ rx = NoChar /\ outbox # <<>>
  /\ rx' = Head(outbox) /\ outbox' = Tail(outbox)
  /\ UNCHANGED <<host, expects, want, pc, prompt, ch, second, number,
                 addr, len, stored, done>>

FreeSend(c) ==
  /\ host = "free" /\ rx = NoChar
  /\ Len(text) < MaxText \/ c \in Newlines
  /\ rx' = c
  /\ UNCHANGED <<hostVars, pc, prompt, ch, second, number, addr, len,
                 stored, done>>

(* The number a text spells: blanks and ends of lines do not count, and a  *)
(* character that is no digit counts as 0.                                 *)
Values(t) ==
  LET value[i \in 0 .. Len(t)] ==
        IF i = 0 THEN 0
        ELSE IF t[i] \in Newlines \union {"sp"} THEN value[i - 1]
        ELSE value[i - 1] * Base + (IF t[i] \in DOMAIN Nibble THEN Nibble[t[i]] ELSE 0)
  IN value
Spelled(t) == Values(t)[Len(t)]

(* How a host may end a command that is going to ask for its numbers, and  *)
(* the numbers themselves.  The careful host knows that                    *)
(*   - an \r that is still to come is read as an empty number,             *)
(*   - a number of Width digits is over with its last one,                 *)
(*   - after the length of an upload the next character is data.           *)
CommandEnds ==
  IF host = "careful" THEN {<<>>, <<"lf">>} ELSE {<<"lf">>, <<"cr">>}
NumberEnds(n, upload) ==
  IF host = "readme" \/ Len(n) < Width THEN {<<"lf">>, <<"cr">>}
  ELSE IF upload THEN {<<>>} ELSE {<<>>, <<"lf">>}

(* A command whose numbers are prompted for. *)
HostCommands(c, end) ==
  /\ host # "free" /\ expects = "C" /\ prompt = "C" /\ outbox = <<>>
  /\ outbox' = <<c>> \o end /\ expects' = "A"
  /\ want' = [NoJob EXCEPT !.cmd = c] /\ done' = NoJob
  /\ prompt' = "none"
  /\ UNCHANGED <<host, rx, pc, ch, second, number, addr, len, stored>>

(* A command with its numbers in the line; a space does not end the first. *)
HostCommandsInLine(c, n, m, end) ==
  /\ host # "free" /\ expects = "C" /\ prompt = "C" /\ outbox = <<>>
  /\ c = "w" => Len(n) = Width
  /\ outbox' = <<c, "sp">> \o n \o (IF c = "w" THEN <<"sp">> \o m ELSE <<>>) \o end
  /\ want' = [cmd |-> c, addr |-> Spelled(n),
              arg |-> IF c = "w" THEN Spelled(m) ELSE 0,
              stored |-> IF c = "w" THEN << <<Spelled(n), Spelled(m)>> >> ELSE <<>>]
  /\ done' = NoJob /\ prompt' = "none"
  /\ UNCHANGED <<host, rx, expects, pc, ch, second, number, addr, len, stored>>

HostQuits(end) ==
  /\ host # "free" /\ expects = "C" /\ prompt = "C" /\ outbox = <<>>
  /\ outbox' = <<"q">> \o end /\ prompt' = "none"
  /\ UNCHANGED <<host, rx, expects, want, pc, ch, second, number, addr, len,
                 stored, done>>

Answers(p) == host # "free" /\ expects = p /\ prompt = p /\ outbox = <<>> /\ prompt' = "none"

HostAddress(n, end) ==
  /\ Answers("A")
  /\ outbox' = n \o end
  /\ want' = [want EXCEPT !.addr = Spelled(n)]
  /\ expects' = IF want.cmd = "e" THEN "C" ELSE "L"
  /\ UNCHANGED <<host, rx, pc, ch, second, number, addr, len, stored, done>>

HostLength(n, end) ==
  /\ Answers("L")
  /\ outbox' = n \o end
  /\ want' = [want EXCEPT !.arg = Spelled(n)]
  /\ expects' = IF want.cmd = "d" THEN "R" ELSE IF Spelled(n) = 0 THEN "C" ELSE "B"
  /\ UNCHANGED <<host, rx, pc, ch, second, number, addr, len, stored, done>>

HostData(data) ==
  /\ Answers("B")
  /\ outbox' = data /\ expects' = "C"
  /\ want' = [want EXCEPT !.stored =
                [i \in 1 .. Len(data) |-> <<(want.addr + i - 1) % Top, data[i]>>]]
  /\ UNCHANGED <<host, rx, pc, ch, second, number, addr, len, stored, done>>

HostReady ==
  /\ Answers("R")
  /\ outbox' = <<"r">> /\ expects' = "C"
  /\ UNCHANGED <<host, rx, want, pc, ch, second, number, addr, len, stored, done>>

Host ==
  \/ HostSend \/ HostReady
  \/ \E end \in CommandEnds : HostQuits(end)
  \/ \E c \in Free : FreeSend(c)
  \/ \E c \in Prompted, end \in CommandEnds : HostCommands(c, end)
  \/ \E c \in InLine, n, m \in Numbers, end \in {<<"lf">>, <<"cr">>} :
       HostCommandsInLine(c, n, m, end)
  \/ \E n \in Numbers : \E end \in NumberEnds(n, FALSE) : HostAddress(n, end)
  \/ \E n \in Numbers : \E end \in NumberEnds(n, want.cmd = "u") : HostLength(n, end)
  \/ \E data \in [1 .. want.arg -> Bytes] : HostData(data)

-----------------------------------------------------------------------------
(* uart_get_u32. *)

GetNumber == started' = FALSE /\ buf' = <<>> /\ text' = <<>>

ascii_to_hex(c) == IF c \in DOMAIN Nibble THEN Nibble[c] ELSE 0
Sums(digits) ==
  LET val[i \in 0 .. Width] ==
        IF i = 0 THEN 0 ELSE val[i - 1] + ascii_to_hex(digits[i]) * Power[Width - i]
  IN val
ascii_to_u32(digits) == Sums(digits)[Width]

(* Faulty variant: zeros behind the digits. *)
PadLeft_Right(digits) ==
  [j \in 1 .. Width |-> IF j <= Len(digits) THEN digits[j] ELSE "0"]

(* Moved to the right end of the buffer, zeros in front. *)
PadLeft(digits) ==
  LET diff == Width - Len(digits)
  IN [j \in 1 .. Width |-> IF j > diff THEN digits[j - diff] ELSE "0"]

(* Faulty variants: bugs the properties must notice. *)

(* A buffer that is not looked at before it is full, or one byte later.    *)
NumberIsOver_OnlyNewline(c) == ~(c = "sp" \/ (c = "lf" /\ ~started)) /\ c \in Newlines
NumberIsOver_Late(c) ==
  ~(c = "sp" \/ (c = "lf" /\ ~started)) /\ (c \in Newlines \/ Len(buf) = Width)

(* A leading \n is not skipped. *)
Skipped_NoNewline(c) == c = "sp"

Skipped(c) == (c = "lf" /\ ~started) \/ c = "sp"

(* A character that does not end the number: a first \n and every space    *)
(* are skipped, others are stored.                                         *)
NumberGoesOn(c) ==
  /\ started' = TRUE /\ text' = Append(text, c)
  /\ buf' = IF Skipped(c) THEN buf ELSE Append(buf, c)
  /\ UNCHANGED <<pc, second, prompt, addr, len, stored, done>>

NumberIsOver(c) ==
  ~Skipped(c) /\ (c \in Newlines \/ Len(buf) = Width - 1)

uart_get_u32(c) ==
  ascii_to_u32(PadLeft(IF c \in Newlines THEN buf ELSE Append(buf, c)))

-----------------------------------------------------------------------------
(* The monitor.                                                            *)

(* getch. *)
Takes(c) == c # NoChar /\ rx = c /\ rx' = NoChar

(* The operation is over, its variables are gone, the next command is read. *)
Carried(a, n, data) ==
  /\ done' = IF host = "free" THEN NoJob
             ELSE [cmd |-> ch, addr |-> a, arg |-> n, stored |-> data]
  /\ pc' = "command" /\ prompt' = "C" /\ ch' = NoChar
  /\ second' = FALSE /\ addr' = 0 /\ len' = 0 /\ stored' = <<>>

(* The command m or n was received. *)
Enter ==
  /\ pc = "left" /\ rx = NoChar /\ outbox = <<>>
  /\ pc' = "flush" /\ ch' = NoChar
  /\ UNCHANGED <<hostVars, rx, prompt, second, number, addr, len, stored, done>>

(* What is left of the line is dropped by simpleserial_get. *)
LeftOver ==
  /\ pc = "left" /\ rx # NoChar
  /\ rx' = NoChar
  /\ UNCHANGED <<hostVars, pc, prompt, ch, second, number, addr, len, stored, done>>

FlushTake ==
  /\ pc = "flush" /\ rx # NoChar
  /\ rx' = NoChar
  /\ UNCHANGED <<hostVars, pc, prompt, ch, second, number, addr, len, stored, done>>

(* Nothing more has arrived; the prompt for what is read next. *)
FlushDone ==
  /\ pc = "flush" /\ rx = NoChar
  /\ IF ch = NoChar
       THEN pc' = "command" /\ prompt' = "C" /\ UNCHANGED number
       ELSE pc' = "number" /\ prompt' = (IF second THEN "L" ELSE "A") /\ GetNumber
  /\ UNCHANGED <<hostVars, rx, ch, second, addr, len, stored, done>>

(* Faulty variant: the prompt comes before the flush. *)
Command_PromptsFirst(c) ==
  /\ pc = "command" /\ Takes(c)
  /\ ch' = IF c \in Prompted THEN c ELSE NoChar
  /\ IF c \in Prompted THEN pc' = "flush" /\ prompt' = "A" ELSE UNCHANGED <<pc, prompt>>
  /\ UNCHANGED <<hostVars, second, number, addr, len, stored, done>>

(* Anything else is ignored, and after q the serial commands are back. *)
Command(c) ==
  /\ pc = "command" /\ Takes(c)
  /\ IF c \in Prompted \union InLine THEN ch' = c ELSE ch' = NoChar
  /\ \/ c = "q" /\ pc' = "left" /\ UNCHANGED number
     \/ c \in Prompted /\ pc' = "flush" /\ UNCHANGED number
     \/ c \in InLine /\ pc' = "number" /\ GetNumber
     \/ c \notin Prompted \union InLine \union {"q"} /\ UNCHANGED <<pc, number>>
  /\ UNCHANGED <<hostVars, prompt, second, addr, len, stored, done>>

(* The first number: of e and r it is the only one, u and d flush, w does not. *)
FirstNumber(v) ==
  \/ /\ ch \in {"u", "d", "w"}
     /\ pc' = IF ch = "w" THEN "number" ELSE "flush"
     /\ addr' = v /\ second' = TRUE
     /\ UNCHANGED <<prompt, ch, len, stored, done>>
  \/ /\ ch = "e"
     /\ pc' = "run" /\ addr' = v
     /\ UNCHANGED <<prompt, ch, second, len, stored, done>>
  \/ ch = "r" /\ Carried(v, 0, <<>>)

SecondNumber(v) ==
  \/ ch = "u" /\ v = 0 /\ Carried(addr, 0, <<>>)
  \/ ch = "w" /\ Carried(addr, v, << <<addr, v>> >>)
  \/ /\ ch = "d" \/ (ch = "u" /\ v # 0)
     /\ len' = v
     /\ IF ch = "u" THEN pc' = "data" /\ prompt' = "B"
                    ELSE pc' = "ready" /\ prompt' = "R"
     /\ UNCHANGED <<ch, second, addr, stored, done>>

Number(c) ==
  /\ pc = "number" /\ Takes(c)
  /\ IF NumberIsOver(c)
       THEN /\ GetNumber
            /\ IF second THEN SecondNumber(uart_get_u32(c)) ELSE FirstNumber(uart_get_u32(c))
       ELSE NumberGoesOn(c) /\ UNCHANGED ch
  /\ UNCHANGED hostVars

(* Every character is data until there are len of them. *)
Data(c) ==
  /\ pc = "data" /\ Takes(c)
  /\ LET all == Append(stored, <<(addr + Len(stored)) % Top, c>>)
     IN IF Len(all) = len
          THEN Carried(addr, len, all)
          ELSE stored' = all /\ UNCHANGED <<pc, prompt, ch, second, addr, len, done>>
  /\ UNCHANGED <<hostVars, number>>

(* A dump starts with the host's r and takes no character. *)
Ready(c) ==
  /\ pc = "ready" /\ Takes(c)
  /\ pc' = IF c = "r" THEN "dump" ELSE "ready"
  /\ UNCHANGED <<hostVars, prompt, ch, second, number, addr, len, stored, done>>

Dump ==
  /\ pc = "dump"
  /\ Carried(addr, len, <<>>)
  /\ UNCHANGED <<hostVars, rx, number>>

(* The program at addr is called; it may not return. *)
Run ==
  /\ pc = "run"
  /\ Carried(addr, 0, <<>>)
  /\ UNCHANGED <<hostVars, rx, number>>

RunForEver ==
  /\ pc = "run"
  /\ pc' = "gone"
  /\ UNCHANGED <<hostVars, rx, prompt, ch, second, number, addr, len, stored, done>>

Monitor ==
  \/ FlushTake \/ FlushDone \/ Dump \/ Run \/ RunForEver
  \/ \E c \in Chars : Command(c) \/ Number(c) \/ Data(c) \/ Ready(c)

Next == Host \/ Monitor \/ Enter \/ LeftOver

Spec == Init /\ [][Next]_vars

(* The processor runs; a host sends what it has begun to send, and answers *)
(* the prompts that belong to its command.                                 *)
Answer ==
  \/ HostReady
  \/ \E n \in Numbers : \E end \in NumberEnds(n, FALSE) : HostAddress(n, end)
  \/ \E n \in Numbers : \E end \in NumberEnds(n, want.cmd = "u") : HostLength(n, end)
  \/ \E data \in [1 .. want.arg -> Bytes] : HostData(data)

FairSpec == Spec /\ WF_vars(Monitor) /\ WF_vars(HostSend) /\ WF_vars(Answer)

-----------------------------------------------------------------------------
(* Whatever is typed, uart_get_u32 returns the number that the characters  *)
(* it took spell, padded with zeros on the left.                           *)
NumberExact ==
  pc = "number" => \A c \in Chars :
    NumberIsOver(c) => uart_get_u32(c) = Spelled(Append(text, c))

(* Each operation of a careful host is carried out as it asked: the same   *)
(* command on the same numbers, and an upload stores its bytes, in order.  *)
JobExact == done # NoJob /\ host = "careful" => done = want

(* And it comes to an end, or to a program that does not return.           *)
JobEnds ==
  (host = "careful" /\ want # NoJob /\ done = NoJob) ~> (done # NoJob \/ pc = "gone")

(* flush drops nothing from a careful host but ends of lines.              *)
OnlyNewlinesFlushed ==
  [][FlushTake /\ host = "careful" => rx \in Newlines]_vars

(* "Commands are terminated in the same way as regular simpleserial        *)
(* commands (with an \r or a \n)": so says the README, and a host that    *)
(* does that also gets what it asked for.                                  *)
TerminatedJobExact == done # NoJob /\ host = "readme" => done = want
=============================================================================
