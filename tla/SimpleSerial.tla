----------------------------- MODULE SimpleSerial -----------------------------
(***************************************************************************)
(* simpleserial.c: the table of commands that main registers, and          *)
(* simpleserial_get, which reads one command character by character.       *)
(*                                                                         *)
(* simpleserial_get blocks in getch, so each character it takes is a step. *)
(* A call of a command is atomic here and answers any status; what the     *)
(* commands do is the subject of other modules.  The history variable      *)
(* line holds what the host has sent since its last end of line; no code   *)
(* reads it.                                                               *)
(***************************************************************************)
EXTENDS Integers, Sequences

CONSTANTS
  Letters,        (* characters that name commands                          *)
  HexChars,       (* 0-9, A-F, a-f                                          *)
  Junk,           (* all other characters that do not end a line            *)
  Newlines,       (* \n and \r                                              *)
  Nibble,         (* the value of a hexadecimal digit                       *)
  Registrations,  (* the calls of simpleserial_addcmd, in order             *)
  MaxCmds,        (* MAX_SS_CMDS: 20 in the code                            *)
  MaxLen,         (* MAX_SS_LEN: 64 in the code                             *)
  Status,         (* what a command may return                              *)
  MaxLine         (* bound: the longest line a host sends                   *)

Chars == Letters \union HexChars \union Junk \union Newlines

ASSUME CharsAssumption == Newlines \intersect (Letters \union HexChars \union Junk) = {}
ASSUME NibbleAssumption == Nibble \in [HexChars -> 0 .. 15]
ASSUME LimitsAssumption == MaxCmds \in Nat /\ MaxLen \in Nat /\ MaxLine \in Nat
ASSUME RegistrationsAssumption == Registrations \in Seq([c : Letters, len : Nat])
ASSUME StatusAssumption == Status \subseteq 0 .. 255
ASSUME LettersAssumption == "none" \notin Letters

(* No command is being executed. *)
NoCall == [c |-> "none", data |-> <<>>]
NoStatus == 256

VARIABLES
  commands,   (* commands[0 .. num_commands - 1]                            *)
  reg,        (* how many calls of simpleserial_addcmd have returned        *)
  phase,      (* where simpleserial_get is                                  *)
  cmd,        (* the index of the command being received                    *)
  ascii_buf,  (* the filled part of ascii_buf                               *)
  call,       (* the call in progress                                       *)
  ret,        (* ret[0]                                                     *)
  answer,     (* the acknowledgement sent since the last character, if any  *)
  line        (* history                                                    *)

vars == <<commands, reg, phase, cmd, ascii_buf, call, ret, answer, line>>

Bytes == 0 .. 255
Calls == [c : Letters, data : Seq(Bytes)]

TypeOK ==
  /\ commands \in Seq([c : Letters, len : 0 .. MaxLen - 1])
  /\ Len(commands) <= MaxCmds
  /\ reg \in 0 .. Len(Registrations)
  /\ phase \in {"register", "idle", "receive", "callback", "acknowledge"}
  /\ cmd \in 0 .. Len(commands) /\ (phase = "receive" => cmd # 0)
  /\ ascii_buf \in Seq(Chars \ Newlines)
  /\ call \in Calls \union {NoCall}
  /\ ret \in Status \union {NoStatus}
  /\ line \in Seq(Chars \ Newlines)

Init ==
  /\ commands = <<>> /\ reg = 0
  /\ phase = "register"
  /\ cmd = 0 /\ ascii_buf = <<>> /\ call = NoCall /\ ret = NoStatus
  /\ answer = NoCall /\ line = <<>>

-----------------------------------------------------------------------------
(* Faulty variants of the definitions below: bugs the properties must notice. *)

(* One entry, or one byte, too many is let in. *)
Rejected_OffByOne(entry) == Len(commands) > MaxCmds \/ entry.len > MaxLen

(* The loop over the data characters runs once more. *)
Missing_OneMore == 2 * commands[cmd].len + 1 - Len(ascii_buf)

-----------------------------------------------------------------------------
(* Registration: main calls simpleserial_init (for 'v') and then           *)
(* simpleserial_addcmd for each command of the application.                *)

Rejected(entry) == Len(commands) >= MaxCmds \/ entry.len >= MaxLen

simpleserial_addcmd ==
  /\ phase = "register" /\ reg < Len(Registrations)
  /\ LET entry == Registrations[reg + 1]
     IN commands' = IF Rejected(entry) THEN commands ELSE Append(commands, entry)
  /\ reg' = reg + 1
  /\ UNCHANGED <<phase, cmd, ascii_buf, call, ret, answer, line>>

(* main enters its loop. *)
Listen ==
  /\ phase = "register" /\ reg = Len(Registrations)
  /\ phase' = "idle"
  /\ UNCHANGED <<commands, reg, cmd, ascii_buf, call, ret, answer, line>>

-----------------------------------------------------------------------------
(* simpleserial_get. *)

(* Entry n of a table is the first one with this letter. *)
Names(table, n, c) ==
  table[n].c = c /\ \A m \in 1 .. n - 1 : table[m].c # c

(* The line as the host sees it, and the bound on what it sends. *)
Sent(c) ==
  /\ c \in Newlines \/ Len(line) < MaxLine
  /\ line' = IF c \in Newlines THEN <<>> ELSE Append(line, c)
  /\ answer' = NoCall

(* simpleserial_get returns: its local variables are gone. *)
Leave == phase' = "idle" /\ cmd' = 0 /\ ascii_buf' = <<>>

(* The first character: the first entry it names, or it is dropped. *)
GetCommand(c) ==
  /\ phase = "idle"
  /\ Sent(c)
  /\ \/ \E n \in 1 .. Len(commands) :
           /\ Names(commands, n, c)
           /\ phase' = "receive" /\ cmd' = n /\ ascii_buf' = <<>>
     \/ /\ \A n \in 1 .. Len(commands) : commands[n].c # c
        /\ Leave
  /\ UNCHANGED <<commands, reg, call, ret>>

Missing == 2 * commands[cmd].len - Len(ascii_buf)

(* Faulty variant: an end of line is taken for data. *)
GetData_AnyCharacter(c) ==
  /\ phase = "receive" /\ Missing > 0
  /\ Sent(c)
  /\ ascii_buf' = Append(ascii_buf, c)
  /\ UNCHANGED <<commands, reg, phase, cmd, call, ret>>

(* One of the 2 * len data characters: an early end of line drops it all. *)
GetData(c) ==
  /\ phase = "receive" /\ Missing > 0
  /\ Sent(c)
  /\ IF c \in Newlines
       THEN Leave
       ELSE ascii_buf' = Append(ascii_buf, c) /\ UNCHANGED <<phase, cmd>>
  /\ UNCHANGED <<commands, reg, call, ret>>

(* hex_decode: two digits per byte, the high nibble first. *)
AllHex(text) == \A i \in 1 .. Len(text) : text[i] \in HexChars
hex_decode(text, len) ==
  [i \in 1 .. len |-> 16 * Nibble[text[2 * i - 1]] + Nibble[text[2 * i]]]

(* Faulty variant: any character ends a complete command. *)
GetTerminator_AnyCharacter(c) ==
  /\ phase = "receive" /\ Missing = 0
  /\ Sent(c)
  /\ IF AllHex(ascii_buf)
       THEN /\ phase' = "callback"
            /\ call' = [c |-> commands[cmd].c,
                        data |-> hex_decode(ascii_buf, commands[cmd].len)]
            /\ UNCHANGED <<cmd, ascii_buf>>
       ELSE Leave /\ UNCHANGED call
  /\ UNCHANGED <<commands, reg, ret>>

(* The character after the data: the end of the line, or all is dropped.   *)
(* The digits are checked, and decoded, only once the line is complete.    *)
GetTerminator(c) ==
  /\ phase = "receive" /\ Missing = 0
  /\ Sent(c)
  /\ IF c \in Newlines /\ AllHex(ascii_buf)
       THEN /\ phase' = "callback"
            /\ call' = [c |-> commands[cmd].c,
                        data |-> hex_decode(ascii_buf, commands[cmd].len)]
            /\ UNCHANGED <<cmd, ascii_buf>>
       ELSE Leave /\ UNCHANGED call
  /\ UNCHANGED <<commands, reg, ret>>

simpleserial_get(c) == GetCommand(c) \/ GetData(c) \/ GetTerminator(c)

Callback ==
  /\ phase = "callback"
  /\ ret' \in Status
  /\ phase' = "acknowledge"
  /\ UNCHANGED <<commands, reg, cmd, ascii_buf, call, answer, line>>

(* simpleserial_put('z', 1, ret), and the return to the loop of main. *)
Acknowledge ==
  /\ phase = "acknowledge"
  /\ answer' = [call |-> call, status |-> ret]
  /\ call' = NoCall /\ ret' = NoStatus
  /\ Leave
  /\ UNCHANGED <<commands, reg, line>>

Next ==
  \/ simpleserial_addcmd \/ Listen
  \/ \E c \in Chars : simpleserial_get(c)
  \/ Callback \/ Acknowledge

Spec == Init /\ [][Next]_vars

-----------------------------------------------------------------------------
(* Of the first k registrations, those that are short enough, in order.    *)
Fits[k \in 0 .. Len(Registrations)] ==
  IF k = 0 THEN <<>>
  ELSE IF Registrations[k].len < MaxLen THEN Append(Fits[k - 1], Registrations[k])
  ELSE Fits[k - 1]

(* The table main ends up with: the first MaxCmds short enough entries.    *)
FirstCmds(entries) ==
  SubSeq(entries, 1, IF Len(entries) < MaxCmds THEN Len(entries) ELSE MaxCmds)
Table == FirstCmds(Fits[Len(Registrations)])

(* The request a text spells: the letter of a command and its data.        *)
Digits(text) == [i \in 1 .. Len(text) - 1 |-> text[i + 1]]

SpellsEntry(table, n, text) ==
  /\ text # <<>> /\ Names(table, n, text[1])
  /\ Len(text) = 1 + 2 * table[n].len
  /\ AllHex(Digits(text))

CallOf(text, len) == [c |-> text[1], data |-> hex_decode(Digits(text), len)]

Request(text) ==
  LET entries == {n \in 1 .. Len(Table) : SpellsEntry(Table, n, text)}
  IN IF entries = {} THEN NoCall
     ELSE CallOf(text, Table[CHOOSE n \in entries : TRUE].len)

(* The buffers on the stack hold what is written to them: a command is     *)
(* only ever received up to twice the length its registration was let in   *)
(* with, which is below 2 * MAX_SS_LEN.                                    *)
BufferFits ==
  /\ ascii_buf = <<>> \/ Len(ascii_buf) < 2 * MaxLen
  /\ phase = "receive" => Len(ascii_buf) <= 2 * commands[cmd].len

(* An end of line always brings the parser back to a command boundary: in  *)
(* the middle of a command there is a non-empty line behind it, which ends *)
(* in that command's letter and the data so far.                           *)
InStep ==
  phase = "receive" =>
    LET start == Len(line) - Len(ascii_buf)
    IN /\ start > 0
       /\ line[start] = commands[cmd].c
       /\ \A i \in 1 .. Len(ascii_buf) : ascii_buf[i] = line[start + i]

(* A line that may still become a request is being received from its first *)
(* character on, and nothing is executed in the middle of a line.          *)
Aligned ==
  /\ phase \in {"register", "callback", "acknowledge"} => line = <<>>
  /\ \A n \in 1 .. Len(commands) :
       (/\ line # <<>> /\ Names(commands, n, line[1])
        /\ Len(line) <= 1 + 2 * commands[n].len)
       => phase = "receive" /\ cmd = n /\ Len(ascii_buf) = Len(line) - 1

(* Whatever the host sent before, a complete line that spells a request is *)
(* executed when it ends, with the data it spells.                         *)
LineExecuted ==
  [][\A n \in 1 .. Len(commands) :
       (/\ phase # "register" /\ line' = <<>> /\ line # <<>>
        /\ SpellsEntry(commands, n, line))
       => call' = CallOf(line, commands[n].len)]_vars

(* "Data was too short or too long": no part of a line that consists of a  *)
(* command letter and digits, but of the wrong number of them, is executed *)
(* (no letter of a command is a digit).                                    *)
WrongLengthIgnored ==
  [][(/\ call' # call /\ call' # NoCall
      /\ line # <<>> /\ line[1] \in Letters /\ AllHex(Digits(line)))
     => call' = Request(line)]_vars

(* The character-level parser is a line server.                            *)
LS == INSTANCE LineServer WITH ready <- phase # "register"
ImplementsLineServer == LS!Spec
=============================================================================
