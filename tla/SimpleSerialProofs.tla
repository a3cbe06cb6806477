-------------------------- MODULE SimpleSerialProofs --------------------------
(***************************************************************************)
(* Proofs about the command parser, for every table of commands, every     *)
(* limit and every line a host may send.                                   *)
(***************************************************************************)
EXTENDS SimpleSerial, Recursion, TLAPS

LEMMA NibblesMakeByte ==
  ASSUME NEW hi \in 0 .. 15, NEW lo \in 0 .. 15 PROVE 16 * hi + lo \in 0 .. 255
  OBVIOUS

(* What hex_decode stores are bytes, as many as the command asked for.     *)
LEMMA DecodeType ==
  ASSUME NEW text, NEW len \in Nat, AllHex(text), 2 * len <= Len(text),
         Len(text) \in Nat
  PROVE  hex_decode(text, len) \in Seq(Bytes)
<1>1. ASSUME NEW i \in 1 .. len
      PROVE  16 * Nibble[text[2 * i - 1]] + Nibble[text[2 * i]] \in Bytes
  <2>1. 2 * i - 1 \in 1 .. Len(text) /\ 2 * i \in 1 .. Len(text)
    OBVIOUS
  <2>2. Nibble[text[2 * i - 1]] \in 0 .. 15 /\ Nibble[text[2 * i]] \in 0 .. 15
    BY <2>1, NibbleAssumption DEF AllHex
  <2> QED
    BY <2>2, NibblesMakeByte DEF Bytes
<1>2. hex_decode(text, len) \in [1 .. len -> Bytes]
  BY <1>1 DEF hex_decode
<1> QED
  BY <1>2

-----------------------------------------------------------------------------
(* Types.                                                                  *)

LEMMA ElementType ==
  ASSUME NEW S, NEW s \in Seq(S), NEW i \in 1 .. Len(s) PROVE s[i] \in S
  OBVIOUS

LEMMA AppendType ==
  ASSUME NEW S, NEW s \in Seq(S), NEW e \in S
  PROVE  Append(s, e) \in Seq(S) /\ Len(Append(s, e)) = Len(s) + 1
  OBVIOUS

(* The parts of the type invariant that steps change together.             *)
TableType ==
  /\ commands \in Seq([c : Letters, len : 0 .. MaxLen - 1])
  /\ Len(commands) <= MaxCmds
  /\ reg \in 0 .. Len(Registrations)
ParserType ==
  /\ phase \in {"register", "idle", "receive", "callback", "acknowledge"}
  /\ cmd \in 0 .. Len(commands) /\ (phase = "receive" => cmd # 0)
  /\ ascii_buf \in Seq(Chars \ Newlines)
CallType ==
  /\ call \in Calls \union {NoCall}
  /\ ret \in Status \union {NoStatus}
LineType == line \in Seq(Chars \ Newlines)

LEMMA TypeParts == TypeOK <=> TableType /\ ParserType /\ CallType /\ LineType
  BY DEF TypeOK, TableType, ParserType, CallType, LineType

LEMMA TypeInit == Init => TypeOK
<1> SUFFICES ASSUME Init PROVE TypeOK
  OBVIOUS
<1>1. TableType
  BY LimitsAssumption, RegistrationsAssumption DEF Init, TableType
<1>2. ParserType
  BY <1>1 DEF Init, ParserType, TableType
<1>3. CallType /\ LineType
  BY DEF Init, CallType, LineType
<1> QED
  BY <1>1, <1>2, <1>3, TypeParts

LEMMA SentType ==
  ASSUME LineType, NEW c \in Chars, Sent(c) PROVE LineType'
  BY DEF LineType, Sent

(* Nothing changes the table once main listens.                            *)
LEMMA TableUntouched ==
  ASSUME TableType, UNCHANGED <<commands, reg>> PROVE TableType'
  BY DEF TableType

LEMMA CallUntouched ==
  ASSUME CallType, UNCHANGED <<call, ret>> PROVE CallType'
  BY DEF CallType

LEMMA LeaveType ==
  ASSUME TableType, Leave, UNCHANGED commands PROVE ParserType'
<1>1. Len(commands) \in Nat
  BY DEF TableType
<1> QED
  BY <1>1 DEF Leave, ParserType

(* The entry being received. *)
LEMMA EntryType ==
  ASSUME TableType, NEW n \in 1 .. Len(commands)
  PROVE  /\ commands[n].c \in Letters
         /\ commands[n].len \in Nat /\ commands[n].len < MaxLen
<1> DEFINE Entries == [c : Letters, len : 0 .. MaxLen - 1]
<1>1. commands \in Seq(Entries)
  BY DEF TableType
<1>2. commands[n] \in Entries
  <2> HIDE DEF Entries
  <2> QED
    BY <1>1, ElementType
<1> QED
  BY <1>2, LimitsAssumption

LEMMA AddcmdType ==
  ASSUME TableType, simpleserial_addcmd
  PROVE  TableType' /\ Len(commands) <= Len(commands')
<1> DEFINE entry == Registrations[reg + 1]
           Entries == [c : Letters, len : 0 .. MaxLen - 1]
<1>1. entry \in [c : Letters, len : Nat]
  <2>1. reg + 1 \in 1 .. Len(Registrations)
    BY RegistrationsAssumption DEF TableType, simpleserial_addcmd
  <2> QED
    BY <2>1, RegistrationsAssumption, ElementType
<1>2. reg' \in 0 .. Len(Registrations)
  BY RegistrationsAssumption DEF TableType, simpleserial_addcmd
<1>3. CASE Rejected(entry)
  BY <1>2, <1>3 DEF TableType, simpleserial_addcmd
<1>4. CASE ~Rejected(entry)
  <2>1. entry \in Entries
    BY <1>1, <1>4, LimitsAssumption DEF Rejected
  <2>2. commands' = Append(commands, entry)
    BY <1>4 DEF simpleserial_addcmd
  <2>3. commands \in Seq(Entries) /\ Len(commands) \in Nat
    BY DEF TableType
  <2>4. commands' \in Seq(Entries) /\ Len(commands') = Len(commands) + 1
    <3> HIDE DEF Entries, entry
    <3> QED
      BY <2>1, <2>2, <2>3, AppendType
  <2>5. Len(commands) < MaxCmds
    BY <1>4, <2>3, LimitsAssumption DEF Rejected
  <2> QED
    BY <1>2, <2>3, <2>4, <2>5, LimitsAssumption DEF TableType
<1> QED
  BY <1>3, <1>4

LEMMA TypeStep == TypeOK /\ [Next]_vars => TypeOK'
<1> SUFFICES ASSUME TypeOK, [Next]_vars PROVE TypeOK'
  OBVIOUS
<1>t. TableType /\ ParserType /\ CallType /\ LineType
  BY TypeParts
<1>n. Len(commands) \in Nat
  BY <1>t DEF TableType
<1>q. TableType' /\ ParserType' /\ CallType' /\ LineType' => TypeOK'
  BY DEF TypeOK, TableType, ParserType, CallType, LineType
<1>1. CASE simpleserial_addcmd
  <2>1. TableType' /\ Len(commands) <= Len(commands')
    BY <1>1, <1>t, AddcmdType
  <2>2. ParserType'
    BY <1>1, <1>t, <2>1 DEF simpleserial_addcmd, ParserType, TableType
  <2> QED
    BY <1>1, <1>t, <1>q, <2>1, <2>2, CallUntouched
    DEF simpleserial_addcmd, LineType
<1>2. CASE Listen
  BY <1>2, <1>t, <1>q, TableUntouched, CallUntouched
  DEF Listen, ParserType, LineType
<1>3. ASSUME NEW c \in Chars, GetCommand(c) PROVE TypeOK'
  <2>1. ParserType'
    <3>1. CASE Leave
      BY <1>3, <1>t, <3>1, LeaveType DEF GetCommand
    <3>2. ASSUME NEW n \in 1 .. Len(commands), phase' = "receive", cmd' = n,
                 ascii_buf' = <<>>
          PROVE  ParserType'
      BY <1>3, <1>n, <3>2 DEF GetCommand, ParserType
    <3> QED
      BY <1>3, <3>1, <3>2 DEF GetCommand
  <2> QED
    BY <1>3, <1>t, <1>q, <2>1, SentType, TableUntouched, CallUntouched
    DEF GetCommand
<1>4. ASSUME NEW c \in Chars, GetData(c) PROVE TypeOK'
  <2>1. ParserType'
    <3>1. CASE c \in Newlines
      BY <1>4, <1>t, <3>1, LeaveType DEF GetData
    <3>2. CASE c \notin Newlines
      <4>1. ascii_buf' = Append(ascii_buf, c) /\ UNCHANGED <<phase, cmd, commands>>
        BY <1>4, <3>2 DEF GetData
      <4>2. ascii_buf' \in Seq(Chars \ Newlines)
        BY <1>t, <3>2, <4>1, AppendType DEF ParserType
      <4> QED
        BY <1>t, <4>1, <4>2 DEF ParserType
    <3> QED
      BY <3>1, <3>2
  <2> QED
    BY <1>4, <1>t, <1>q, <2>1, SentType, TableUntouched, CallUntouched
    DEF GetData
<1>5. ASSUME NEW c \in Chars, GetTerminator(c) PROVE TypeOK'
  <2>1. LineType' /\ TableType'
    BY <1>5, <1>t, SentType, TableUntouched DEF GetTerminator
  <2>2. ParserType'
    <3>1. CASE c \in Newlines /\ AllHex(ascii_buf)
      <4>1. phase' = "callback" /\ UNCHANGED <<cmd, ascii_buf, commands>>
        BY <1>5, <3>1 DEF GetTerminator
      <4> QED
        BY <1>t, <4>1 DEF ParserType
    <3>2. CASE ~(c \in Newlines /\ AllHex(ascii_buf))
      BY <1>5, <1>t, <3>2, LeaveType DEF GetTerminator
    <3> QED
      BY <3>1, <3>2
  <2>3. CallType'
    <3>1. CASE c \in Newlines /\ AllHex(ascii_buf)
      <4>1. commands[cmd].c \in Letters /\ commands[cmd].len \in Nat
        BY <1>5, <1>t, EntryType DEF GetTerminator, ParserType
      <4>2. 2 * commands[cmd].len <= Len(ascii_buf) /\ Len(ascii_buf) \in Nat
        BY <1>5, <1>t, <4>1 DEF GetTerminator, Missing, ParserType
      <4>3. hex_decode(ascii_buf, commands[cmd].len) \in Seq(Bytes)
        BY <3>1, <4>1, <4>2, DecodeType
      <4>4. call' \in Calls
        BY <1>5, <3>1, <4>1, <4>3 DEF GetTerminator, Calls
      <4> QED
        BY <1>5, <1>t, <4>4 DEF GetTerminator, CallType
    <3>2. CASE ~(c \in Newlines /\ AllHex(ascii_buf))
      BY <1>5, <1>t, <3>2, CallUntouched DEF GetTerminator
    <3> QED
      BY <3>1, <3>2
  <2> QED
    BY <1>q, <2>1, <2>2, <2>3
<1>6. CASE Callback
  <2>1. ParserType' /\ CallType'
    BY <1>6, <1>t DEF Callback, ParserType, CallType
  <2> QED
    BY <1>6, <1>t, <1>q, <2>1, TableUntouched DEF Callback, LineType
<1>7. CASE Acknowledge
  <2>1. ParserType' /\ CallType'
    BY <1>7, <1>t, <1>n DEF Acknowledge, Leave, ParserType, CallType
  <2> QED
    BY <1>7, <1>t, <1>q, <2>1, TableUntouched DEF Acknowledge, LineType
<1>8. CASE UNCHANGED vars
  BY <1>8, <1>t, <1>q, TableUntouched, CallUntouched
  DEF vars, ParserType, LineType
<1> QED
  BY <1>1, <1>2, <1>3, <1>4, <1>5, <1>6, <1>7, <1>8 DEF Next, simpleserial_get

(* Type correctness: the table never outgrows MAX_SS_CMDS, no entry is as  *)
(* long as MAX_SS_LEN, and what a command is called with are bytes.        *)
THEOREM TypeCorrect == Spec => []TypeOK
  BY TypeInit, TypeStep, PTL DEF Spec

-----------------------------------------------------------------------------
(* The parser keeps step with the line.                                    *)

SInv == TypeOK /\ BufferFits /\ InStep /\ Aligned

LEMMA SInvInit == Init => SInv
<1> SUFFICES ASSUME Init PROVE SInv
  OBVIOUS
<1>1. TypeOK
  BY TypeInit
<1>2. BufferFits /\ InStep /\ Aligned
  BY DEF Init, BufferFits, InStep, Aligned
<1> QED
  BY <1>1, <1>2 DEF SInv

(* An end of line, seen from inside simpleserial_get. *)
LEMMA LineEnds ==
  ASSUME NEW c \in Newlines, Sent(c) PROVE line' = <<>>
  BY DEF Sent

LEMMA LineGrows ==
  ASSUME LineType, NEW c \in Chars, c \notin Newlines, Sent(c)
  PROVE  /\ line' = Append(line, c)
         /\ Len(line') = Len(line) + 1
         /\ line'[Len(line) + 1] = c
         /\ \A i \in 1 .. Len(line) : line'[i] = line[i]
  BY DEF Sent, LineType

(* Leaving simpleserial_get keeps the invariant when what it leaves behind *)
(* cannot become a request any more.                                       *)
LEMMA LeaveInv ==
  ASSUME SInv, Leave, UNCHANGED commands,
         line' = <<>> \/
         \A n \in 1 .. Len(commands) :
           (line' # <<>> /\ Names(commands, n, line'[1]))
             => Len(line') > 1 + 2 * commands[n].len
  PROVE  BufferFits' /\ InStep' /\ Aligned'
<1>1. BufferFits' /\ InStep'
  BY DEF Leave, BufferFits, InStep
<1>2. Aligned'
  <2> SUFFICES ASSUME NEW n \in 1 .. Len(commands), line' # <<>>,
                      Names(commands, n, line'[1]),
                      Len(line') <= 1 + 2 * commands[n].len
               PROVE  FALSE
    BY DEF Leave, Aligned, Names
  <2>1. Len(line') > 1 + 2 * commands[n].len
    OBVIOUS
  <2>2. commands[n].len \in Nat
    BY EntryType, TypeParts DEF SInv
  <2>3. Len(line') \in Nat
    OBVIOUS
  <2> QED
    BY <2>1, <2>2, <2>3
<1> QED
  BY <1>1, <1>2

LEMMA SInvStep == SInv /\ [Next]_vars => SInv'
<1> SUFFICES ASSUME SInv, [Next]_vars PROVE SInv'
  OBVIOUS
<1>t. TypeOK' /\ TableType /\ ParserType /\ CallType /\ LineType
  BY TypeStep, TypeParts DEF SInv
<1>i. BufferFits /\ InStep /\ Aligned
  BY DEF SInv
<1>q. BufferFits' /\ InStep' /\ Aligned' => SInv'
  BY <1>t DEF SInv
<1>1. CASE simpleserial_addcmd
  <2>1. phase = "register" /\ line = <<>> /\ UNCHANGED <<phase, ascii_buf, line>>
    BY <1>1, <1>i DEF simpleserial_addcmd, Aligned
  <2> QED
    BY <2>1, <1>i, <1>q DEF BufferFits, InStep, Aligned
<1>2. CASE Listen
  <2>1. /\ phase = "register" /\ phase' = "idle" /\ line = <<>>
        /\ UNCHANGED <<commands, cmd, ascii_buf, line>>
    BY <1>2, <1>i DEF Listen, Aligned
  <2> QED
    BY <2>1, <1>i, <1>q DEF BufferFits, InStep, Aligned
<1>3. ASSUME NEW c \in Chars, GetCommand(c) PROVE SInv'
  <2>1. phase = "idle" /\ Sent(c) /\ UNCHANGED commands
    BY <1>3 DEF GetCommand
  <2>2. CASE Leave
    <3>1. CASE c \in Newlines
      BY <2>1, <2>2, <3>1, <1>q, LineEnds, LeaveInv
    <3>2. CASE c \notin Newlines /\ line = <<>>
      <4>1. line' # <<>> /\ line'[1] = c
        BY <1>t, <2>1, <3>2, LineGrows
      <4>2. \A n \in 1 .. Len(commands) : commands[n].c # c
        BY <1>3, <2>2 DEF GetCommand, Leave
      <4> QED
        BY <2>1, <2>2, <4>1, <4>2, <1>q, LeaveInv DEF Names
    <3>3. CASE c \notin Newlines /\ line # <<>>
      <4>1. /\ line' # <<>> /\ line'[1] = line[1] /\ Len(line') = Len(line) + 1
            /\ Len(line) \in Nat
        BY <1>t, <2>1, <3>3, LineGrows DEF LineType
      <4>2. ASSUME NEW n \in 1 .. Len(commands), Names(commands, n, line'[1])
            PROVE  Len(line') > 1 + 2 * commands[n].len
        <5>1. ~(Len(line) <= 1 + 2 * commands[n].len)
          BY <1>i, <2>1, <3>3, <4>1, <4>2 DEF Aligned
        <5>2. commands[n].len \in Nat
          BY <1>t, EntryType
        <5> QED
          BY <4>1, <5>1, <5>2
      <4> QED
        BY <2>1, <2>2, <4>2, <1>q, LeaveInv
    <3> QED
      BY <3>1, <3>2, <3>3
  <2>3. ASSUME NEW n \in 1 .. Len(commands), Names(commands, n, c),
               phase' = "receive", cmd' = n, ascii_buf' = <<>>
        PROVE  SInv'
    <3>1. c \in Letters
      BY <1>t, <2>3, EntryType DEF Names
    <3>2. c \notin Newlines
      BY <3>1, CharsAssumption
    <3>3. /\ line' = Append(line, c) /\ Len(line') = Len(line) + 1
          /\ line'[Len(line) + 1] = c /\ Len(line) \in Nat
          /\ \A i \in 1 .. Len(line) : line'[i] = line[i]
      BY <1>t, <2>1, <3>2, LineGrows DEF LineType
    <3>4. BufferFits'
      <4>1. commands[n].len \in Nat
        BY <1>t, EntryType
      <4> QED
        BY <2>1, <2>3, <4>1 DEF BufferFits
    <3>5. InStep'
      BY <2>1, <2>3, <3>3 DEF InStep, Names
    <3>6. Aligned'
      <4> SUFFICES ASSUME NEW m \in 1 .. Len(commands),
                          Names(commands, m, line'[1]),
                          Len(line') <= 1 + 2 * commands[m].len
                   PROVE  cmd' = m /\ Len(ascii_buf') = Len(line') - 1
        BY <2>1, <2>3, <3>3 DEF Aligned
      <4>1. commands[m].len \in Nat
        BY <1>t, EntryType
      <4>2. line = <<>>
        <5>1. SUFFICES ASSUME line # <<>> PROVE FALSE
          OBVIOUS
        <5>2. line'[1] = line[1] /\ Len(line) <= 1 + 2 * commands[m].len
          BY <1>t, <3>3, <4>1, <5>1 DEF LineType
        <5> QED
          BY <1>i, <2>1, <5>1, <5>2 DEF Aligned
      <4>3. line'[1] = c /\ Len(line) = 0
        BY <3>3, <4>2
      <4>4. m = n
        BY <2>3, <4>3 DEF Names
      <4> QED
        BY <2>3, <3>3, <4>3, <4>4
    <3> QED
      BY <1>q, <3>4, <3>5, <3>6
  <2> QED
    BY <1>3, <2>2, <2>3 DEF GetCommand
<1>4. ASSUME NEW c \in Chars, GetData(c) PROVE SInv'
  <2>1. /\ phase = "receive" /\ Missing > 0 /\ Sent(c) /\ UNCHANGED commands
        /\ cmd \in 1 .. Len(commands) /\ commands[cmd].len \in Nat
        /\ Len(ascii_buf) \in Nat /\ commands[cmd].len < MaxLen
    <3>1. phase = "receive" /\ Missing > 0 /\ Sent(c) /\ UNCHANGED commands
      BY <1>4 DEF GetData
    <3>2. cmd \in 1 .. Len(commands) /\ Len(ascii_buf) \in Nat
      BY <1>t, <3>1 DEF ParserType, TableType
    <3> QED
      BY <1>t, <3>1, <3>2, EntryType
  <2>2. CASE c \in Newlines
    BY <1>4, <1>q, <2>1, <2>2, LineEnds, LeaveInv DEF GetData
  <2>3. CASE c \notin Newlines
    <3>1. /\ ascii_buf' = Append(ascii_buf, c) /\ UNCHANGED <<phase, cmd>>
          /\ Len(ascii_buf') = Len(ascii_buf) + 1
          /\ ascii_buf'[Len(ascii_buf) + 1] = c
          /\ \A i \in 1 .. Len(ascii_buf) : ascii_buf'[i] = ascii_buf[i]
      BY <1>4, <1>t, <2>3 DEF GetData, ParserType
    <3>2. /\ Len(line') = Len(line) + 1 /\ Len(line) \in Nat
          /\ line'[Len(line) + 1] = c
          /\ \A i \in 1 .. Len(line) : line'[i] = line[i]
      BY <1>t, <2>1, <2>3, LineGrows DEF LineType
    <3>3. BufferFits'
      <4>1. Len(ascii_buf) < 2 * commands[cmd].len
        BY <2>1 DEF Missing
      <4>2. /\ Len(ascii_buf') <= 2 * commands[cmd].len
            /\ Len(ascii_buf') < 2 * MaxLen
        BY <2>1, <3>1, <4>1, LimitsAssumption
      <4> QED
        BY <2>1, <3>1, <4>2 DEF BufferFits
    <3>4. InStep'
      <4> DEFINE start == Len(line) - Len(ascii_buf)
      <4>1. /\ start > 0 /\ line[start] = commands[cmd].c /\ start \in 1 .. Len(line)
            /\ \A i \in 1 .. Len(ascii_buf) : ascii_buf[i] = line[start + i]
        BY <1>i, <2>1, <3>2 DEF InStep
      <4>2. Len(line') - Len(ascii_buf') = start
        BY <2>1, <3>1, <3>2
      <4>s. line'[start] = commands[cmd].c
        BY <3>2, <4>1
      <4>3. ASSUME NEW i \in 1 .. Len(ascii_buf') PROVE ascii_buf'[i] = line'[start + i]
        <5>1. CASE i = Len(ascii_buf) + 1
          BY <2>1, <3>1, <3>2, <4>1, <5>1
        <5>2. CASE i \in 1 .. Len(ascii_buf)
          <6>1. start + i \in 1 .. Len(line)
            BY <2>1, <3>2, <4>1, <5>2
          <6> QED
            BY <3>1, <3>2, <4>1, <5>2, <6>1
        <5> QED
          BY <2>1, <3>1, <4>3, <5>1, <5>2
      <4> QED
        BY <2>1, <3>1, <4>1, <4>2, <4>3, <4>s DEF InStep
    <3>5. Aligned'
      <4> SUFFICES ASSUME NEW n \in 1 .. Len(commands),
                          Names(commands, n, line'[1]),
                          Len(line') <= 1 + 2 * commands[n].len
                   PROVE  cmd' = n /\ Len(ascii_buf') = Len(line') - 1
        BY <2>1, <3>1 DEF Aligned
      <4>1. commands[n].len \in Nat
        BY <1>t, EntryType
      <4>2. Len(line) > 0
        BY <1>i, <2>1, <3>2 DEF InStep
      <4>3. line'[1] = line[1] /\ line # <<>> /\ Len(line) <= 1 + 2 * commands[n].len
        BY <3>2, <4>1, <4>2
      <4>4. cmd = n /\ Len(ascii_buf) = Len(line) - 1
        BY <1>i, <4>3 DEF Aligned
      <4> QED
        BY <3>1, <3>2, <4>4
    <3> QED
      BY <1>q, <3>3, <3>4, <3>5
  <2> QED
    BY <2>2, <2>3
<1>5. ASSUME NEW c \in Chars, GetTerminator(c) PROVE SInv'
  <2>1. /\ phase = "receive" /\ Missing = 0 /\ Sent(c) /\ UNCHANGED commands
        /\ cmd \in 1 .. Len(commands) /\ commands[cmd].len \in Nat
        /\ Len(ascii_buf) \in Nat
    <3>1. phase = "receive" /\ Missing = 0 /\ Sent(c) /\ UNCHANGED commands
      BY <1>5 DEF GetTerminator
    <3>2. cmd \in 1 .. Len(commands) /\ Len(ascii_buf) \in Nat
      BY <1>t, <3>1 DEF ParserType, TableType
    <3> QED
      BY <1>t, <3>1, <3>2, EntryType
  <2>2. CASE c \in Newlines /\ AllHex(ascii_buf)
    <3>1. phase' = "callback" /\ UNCHANGED <<cmd, ascii_buf>> /\ line' = <<>>
      BY <1>5, <2>1, <2>2, LineEnds DEF GetTerminator
    <3> QED
      BY <1>i, <1>q, <2>1, <3>1 DEF BufferFits, InStep, Aligned
  <2>3. CASE c \in Newlines /\ ~AllHex(ascii_buf)
    BY <1>5, <1>q, <2>1, <2>3, LineEnds, LeaveInv DEF GetTerminator
  <2>4. CASE c \notin Newlines
    <3>1. Leave
      BY <1>5, <2>4 DEF GetTerminator
    <3>2. /\ Len(line') = Len(line) + 1 /\ Len(line) \in Nat
          /\ \A i \in 1 .. Len(line) : line'[i] = line[i]
      BY <1>t, <2>1, <2>4, LineGrows DEF LineType
    <3>3. ASSUME NEW n \in 1 .. Len(commands), Names(commands, n, line'[1])
          PROVE  Len(line') > 1 + 2 * commands[n].len
      <4>1. commands[n].len \in Nat
        BY <1>t, EntryType
      <4>2. Len(line) > 0
        BY <1>i, <2>1, <3>2 DEF InStep
      <4>3. line'[1] = line[1] /\ line # <<>>
        BY <3>2, <4>2
      <4>4. CASE Len(line) <= 1 + 2 * commands[n].len
        <5>1. cmd = n /\ Len(ascii_buf) = Len(line) - 1
          BY <1>i, <3>3, <4>3, <4>4 DEF Aligned
        <5> QED
          <6>1. 2 * commands[n].len = Len(ascii_buf)
            BY <2>1, <4>1, <5>1 DEF Missing
          <6> QED
            BY <3>2, <4>1, <5>1, <6>1
      <4> QED
        BY <3>2, <4>1, <4>4
    <3> QED
      BY <1>q, <2>1, <3>1, <3>3, LeaveInv
  <2> QED
    BY <2>2, <2>3, <2>4
<1>6. CASE Callback
  <2>1. /\ phase = "callback" /\ phase' = "acknowledge"
        /\ UNCHANGED <<commands, cmd, ascii_buf, line>>
    BY <1>6 DEF Callback
  <2> QED
    BY <2>1, <1>i, <1>q DEF BufferFits, InStep, Aligned
<1>7. CASE Acknowledge
  <2>1. line' = <<>> /\ Leave /\ UNCHANGED commands
    BY <1>7, <1>i DEF Acknowledge, Aligned
  <2> QED
    BY <2>1, <1>q, LeaveInv
<1>8. CASE UNCHANGED vars
  <2>1. UNCHANGED <<phase, commands, cmd, ascii_buf, line>>
    BY <1>8 DEF vars
  <2> QED
    BY <2>1, <1>i, <1>q DEF BufferFits, InStep, Aligned
<1> QED
  BY <1>1, <1>2, <1>3, <1>4, <1>5, <1>6, <1>7, <1>8 DEF Next, simpleserial_get

(* The buffer is never overrun, and a line that may still be a good one    *)
(* has been received from its first character on.                          *)
THEOREM ParserInvariance == Spec => []SInv
  BY SInvInit, SInvStep, PTL DEF Spec

(* No write to ascii_buf or data_buf is past its end.                      *)
THEOREM BufferFitsHolds == Spec => []BufferFits
<1>1. SInv => BufferFits
  BY DEF SInv
<1> QED
  BY <1>1, ParserInvariance, PTL

(* After an end of line the parser is at a command boundary.               *)
THEOREM InStepHolds == Spec => []InStep
<1>1. SInv => InStep
  BY DEF SInv
<1> QED
  BY <1>1, ParserInvariance, PTL

(* A line that can still become a request is received from its start.      *)
THEOREM AlignedHolds == Spec => []Aligned
<1>1. SInv => Aligned
  BY DEF SInv
<1> QED
  BY <1>1, ParserInvariance, PTL

(* A step that ends a line executes what the line spells.                  *)
LEMMA LineExecutedStep ==
  ASSUME SInv, [Next]_vars, NEW n \in 1 .. Len(commands),
         phase # "register", line' = <<>>, line # <<>>,
         SpellsEntry(commands, n, line)
  PROVE  call' = CallOf(line, commands[n].len)
<1>t. TableType /\ ParserType /\ LineType
  BY TypeParts DEF SInv
<1>1. /\ commands[n].len \in Nat /\ Len(line) \in Nat
      /\ Len(line) = 1 + 2 * commands[n].len
      /\ Names(commands, n, line[1]) /\ AllHex(Digits(line))
  BY <1>t, EntryType DEF SpellsEntry, LineType
<1>2. phase = "receive" /\ cmd = n /\ Len(ascii_buf) = 2 * commands[n].len
  <2>1. Len(line) <= 1 + 2 * commands[n].len
    BY <1>1
  <2>2. phase = "receive" /\ cmd = n /\ Len(ascii_buf) = Len(line) - 1
    BY <1>1, <2>1 DEF SInv, Aligned
  <2> QED
    BY <1>1, <2>2
<1>3. Missing = 0
  BY <1>1, <1>2 DEF Missing
<1>4. ascii_buf = Digits(line)
  <2>1. Len(line) - 1 = Len(ascii_buf) /\ Len(line) - Len(ascii_buf) = 1
    <3>1. Len(ascii_buf) = 2 * commands[n].len
      BY <1>2
    <3> QED
      BY <1>1, <3>1
  <2>2. /\ ascii_buf \in Seq(Chars \ Newlines)
        /\ Digits(line) = [i \in 1 .. Len(ascii_buf) |-> line[i + 1]]
    BY <1>t, <2>1, Zenon DEF ParserType, Digits
  <2>3. \A i \in 1 .. Len(ascii_buf) : ascii_buf[i] = line[i + 1]
    <3>1. \A i \in 1 .. Len(ascii_buf) :
             ascii_buf[i] = line[Len(line) - Len(ascii_buf) + i]
      BY <1>2, Zenon DEF SInv, InStep
    <3>2. Len(ascii_buf) \in Nat
      BY <2>1, <1>1, <1>2
    <3>3. SUFFICES ASSUME NEW i \in 1 .. Len(ascii_buf)
                   PROVE  ascii_buf[i] = line[i + 1]
      OBVIOUS
    <3>4. Len(line) - Len(ascii_buf) + i = i + 1
      BY <2>1, <3>2
    <3> QED
      BY <3>1, <3>4
  <2>4. ascii_buf = [i \in 1 .. Len(ascii_buf) |-> ascii_buf[i]]
    BY <2>2
  <2>5. [i \in 1 .. Len(ascii_buf) |-> ascii_buf[i]]
          = [i \in 1 .. Len(ascii_buf) |-> line[i + 1]]
    BY <2>3
  <2> QED
    BY <2>2, <2>4, <2>5
<1>5. PICK c \in Chars : GetTerminator(c)
  <2>1. ~simpleserial_addcmd /\ ~Listen /\ ~Callback /\ ~Acknowledge
    BY <1>2 DEF simpleserial_addcmd, Listen, Callback, Acknowledge
  <2>2. ~UNCHANGED vars
    BY DEF vars
  <2>3. \A c \in Chars : ~GetCommand(c) /\ ~GetData(c)
    BY <1>2, <1>3 DEF GetCommand, GetData
  <2> QED
    BY <2>1, <2>2, <2>3 DEF Next, simpleserial_get
<1>6. c \in Newlines
  <2>1. SUFFICES ASSUME c \notin Newlines PROVE FALSE
    OBVIOUS
  <2>2. Len(line') = Len(line) + 1
    BY <1>t, <1>5, <2>1, LineGrows DEF GetTerminator
  <2> QED
    BY <1>1, <2>2
<1>7. call' = [c |-> commands[n].c,
               data |-> hex_decode(Digits(line), commands[n].len)]
  BY <1>1, <1>2, <1>4, <1>5, <1>6 DEF GetTerminator
<1> QED
  BY <1>1, <1>7 DEF CallOf, Names

(* A complete line that spells a request is executed when it ends, with    *)
(* the data it spells, whatever the host sent before that line.            *)
THEOREM LineExecutedHolds == Spec => LineExecuted
<1>1. SInv /\ [Next]_vars =>
        [\A n \in 1 .. Len(commands) :
           (/\ phase # "register" /\ line' = <<>> /\ line # <<>>
            /\ SpellsEntry(commands, n, line))
           => call' = CallOf(line, commands[n].len)]_vars
  BY LineExecutedStep
<1> QED
  BY <1>1, ParserInvariance, PTL DEF Spec, LineExecuted
-----------------------------------------------------------------------------
(* The table of commands.                                                  *)

Entries == [c : Letters, len : Nat]

(* The definition of Fits by recursion has a solution, and Fits is one.    *)
LEMMA FitsUnfold ==
  \A k \in 0 .. Len(Registrations) :
    Fits[k] = IF k = 0 THEN <<>>
              ELSE IF Registrations[k].len < MaxLen
                   THEN Append(Fits[k - 1], Registrations[k]) ELSE Fits[k - 1]
<1> DEFINE n == Len(Registrations)
           step == [k \in 1 .. n |-> [s \in Seq(Entries) |->
                      IF Registrations[k].len < MaxLen
                      THEN Append(s, Registrations[k]) ELSE s]]
           Unfolds(f) == f = [k \in 0 .. Len(Registrations) |->
                 IF k = 0 THEN <<>>
                 ELSE IF Registrations[k].len < MaxLen
                 THEN Append(f[k - 1], Registrations[k]) ELSE f[k - 1]]
<1>1. \E f : Unfolds(f)
  <2>0. n \in Nat /\ <<>> \in Seq(Entries) /\ Registrations \in Seq(Entries)
    BY RegistrationsAssumption DEF Entries
  <2>1. step \in [1 .. n -> [Seq(Entries) -> Seq(Entries)]]
    <3> SUFFICES ASSUME NEW k \in 1 .. n, NEW s \in Seq(Entries)
                 PROVE  Append(s, Registrations[k]) \in Seq(Entries)
      OBVIOUS
    <3>1. Registrations[k] \in Entries
      BY <2>0
    <3> QED
      BY <3>1
  <2>2. PICK f \in [0 .. n -> Seq(Entries)] :
          f[0] = <<>> /\ \A k \in 1 .. n : f[k] = step[k][f[k - 1]]
    <3> DEFINE S == Seq(Entries)
               start == <<>>
    <3> HIDE DEF step, n, S, start
    <3>1. start \in S /\ n \in Nat /\ step \in [1 .. n -> [S -> S]]
      BY <2>0, <2>1 DEF S, start
    <3>2. \E f : IsRun(f, S, n, start, step)
      BY <3>1, StepsExist
    <3> QED
      BY <3>2 DEF IsRun, S, start
  <2>3. ASSUME NEW k \in 1 .. n
        PROVE  f[k] = IF Registrations[k].len < MaxLen
                 THEN Append(f[k - 1], Registrations[k]) ELSE f[k - 1]
    <3>1. f[k - 1] \in Seq(Entries)
      <4> QED BY <2>0
    <3> QED
      BY <2>2, <3>1
  <2>4. f = [k \in 0 .. n |-> f[k]]
    BY <2>2
  <2>5. ASSUME NEW k \in 0 .. n
        PROVE f[k] = IF k = 0 THEN <<>>
                 ELSE IF Registrations[k].len < MaxLen
                 THEN Append(f[k - 1], Registrations[k]) ELSE f[k - 1]
    <3>1. k = 0 \/ k \in 1 .. n
      BY <2>0
    <3> HIDE DEF step, n
    <3> QED
      BY <2>2, <2>3, <3>1
  <2> QED
    BY <2>4, <2>5
<1>2. Unfolds(Fits)
  BY <1>1, Zenon DEF Fits
<1> QED
  BY <1>2, Zenon

LEMMA FitsStep ==
  ASSUME NEW k \in Nat, k < Len(Registrations)
  PROVE  Fits[k + 1] = IF Registrations[k + 1].len < MaxLen
                       THEN Append(Fits[k], Registrations[k + 1]) ELSE Fits[k]
<1>1. k + 1 \in 0 .. Len(Registrations) /\ k + 1 # 0 /\ (k + 1) - 1 = k
  BY RegistrationsAssumption
<1> QED
  BY <1>1, FitsUnfold

LEMMA FirstCmdsLen ==
  ASSUME NEW S, NEW s \in Seq(S)
  PROVE  /\ FirstCmds(s) \in Seq(S)
         /\ Len(FirstCmds(s)) = IF Len(s) < MaxCmds THEN Len(s) ELSE MaxCmds
         /\ \A i \in 1 .. Len(FirstCmds(s)) : FirstCmds(s)[i] = s[i]
  BY LimitsAssumption DEF FirstCmds

(* One more entry is taken while there is room.                            *)
LEMMA FirstCmdsAppend ==
  ASSUME NEW S, NEW s \in Seq(S), NEW e \in S
  PROVE  FirstCmds(Append(s, e)) =
           IF Len(FirstCmds(s)) >= MaxCmds THEN FirstCmds(s)
           ELSE Append(FirstCmds(s), e)
<1> DEFINE a == Append(s, e)
<1>1. a \in Seq(S) /\ Len(a) = Len(s) + 1 /\ Len(s) \in Nat
      /\ a[Len(s) + 1] = e /\ \A i \in 1 .. Len(s) : a[i] = s[i]
  OBVIOUS
<1>2. /\ FirstCmds(s) \in Seq(S) /\ FirstCmds(a) \in Seq(S)
      /\ Len(FirstCmds(s)) = IF Len(s) < MaxCmds THEN Len(s) ELSE MaxCmds
      /\ Len(FirstCmds(a)) = IF Len(a) < MaxCmds THEN Len(a) ELSE MaxCmds
      /\ \A i \in 1 .. Len(FirstCmds(s)) : FirstCmds(s)[i] = s[i]
      /\ \A i \in 1 .. Len(FirstCmds(a)) : FirstCmds(a)[i] = a[i]
  BY <1>1, FirstCmdsLen
<1> HIDE DEF a
<1>3. CASE Len(s) >= MaxCmds
  <2>1. Len(FirstCmds(s)) = MaxCmds /\ Len(FirstCmds(a)) = MaxCmds
    BY <1>1, <1>2, <1>3, LimitsAssumption
  <2>2. \A i \in 1 .. MaxCmds : FirstCmds(a)[i] = FirstCmds(s)[i]
    BY <1>1, <1>2, <1>3, <2>1, LimitsAssumption
  <2>3. FirstCmds(a) = FirstCmds(s)
    BY <1>2, <2>1, <2>2
  <2> QED
    BY <2>1, <2>3, LimitsAssumption DEF a
<1>4. CASE Len(s) < MaxCmds
  <2>1. Len(FirstCmds(s)) = Len(s) /\ Len(FirstCmds(a)) = Len(s) + 1
    BY <1>1, <1>2, <1>4, LimitsAssumption
  <2>2. FirstCmds(a) = Append(FirstCmds(s), e)
    BY <1>1, <1>2, <2>1
  <2> QED
    BY <1>1, <1>4, <2>1, <2>2, LimitsAssumption DEF a
<1> QED
  BY <1>1, <1>3, <1>4, LimitsAssumption

-----------------------------------------------------------------------------
(* The parser implements the line server.                                  *)

(* The table is what the registrations so far make of it, and the first    *)
(* entry with its letter is the one being received.                        *)
TableInv ==
  /\ Fits[reg] \in Seq(Entries)
  /\ commands = FirstCmds(Fits[reg])
  /\ phase # "register" => reg = Len(Registrations)
  /\ phase = "receive" => Names(commands, cmd, commands[cmd].c)

(* A call is in progress exactly while its command runs or is answered.    *)
CallInv ==
  /\ call # NoCall <=> phase \in {"callback", "acknowledge"}
  /\ phase = "acknowledge" => ret \in Status

LInv == SInv /\ TableInv /\ CallInv

LEMMA LInvInit == Init => LInv
<1> SUFFICES ASSUME Init PROVE LInv
  OBVIOUS
<1>1. Fits[0] = <<>>
  BY FitsUnfold, RegistrationsAssumption
<1>2. FirstCmds(<<>>) = <<>>
  BY LimitsAssumption DEF FirstCmds
<1>3. TableInv
  BY <1>1, <1>2 DEF Init, TableInv
<1> QED
  BY <1>3, SInvInit DEF LInv, CallInv, Init

LEMMA TableGrows ==
  ASSUME LInv, simpleserial_addcmd PROVE TableInv'
<1> DEFINE e == Registrations[reg + 1]
<1>1. /\ phase = "register" /\ phase' = phase /\ reg \in Nat
      /\ reg < Len(Registrations) /\ reg' = reg + 1
  BY TypeParts, RegistrationsAssumption DEF LInv, SInv, TableType, simpleserial_addcmd
<1>2. e \in Entries
  <2>1. reg + 1 \in 1 .. Len(Registrations)
    BY <1>1, RegistrationsAssumption
  <2>2. Registrations \in Seq(Entries)
    BY RegistrationsAssumption DEF Entries
  <2> QED
    BY <2>1, <2>2, ElementType
<1>3. Fits[reg'] = IF e.len < MaxLen THEN Append(Fits[reg], e) ELSE Fits[reg]
  BY <1>1, FitsStep
<1>4. Fits[reg] \in Seq(Entries) /\ commands = FirstCmds(Fits[reg])
  BY DEF LInv, TableInv
<1>5. Fits[reg'] \in Seq(Entries)
  BY <1>2, <1>3, <1>4, AppendType
<1>6. commands' = IF Rejected(e) THEN commands ELSE Append(commands, e)
  BY DEF simpleserial_addcmd
<1>7. e.len \in Nat
  BY <1>2 DEF Entries
<1>8. commands' = FirstCmds(Fits[reg'])
  <2>1. CASE e.len >= MaxLen
    BY <1>3, <1>4, <1>6, <1>7, <2>1, LimitsAssumption DEF Rejected
  <2>2. CASE e.len < MaxLen
    <3>1. Fits[reg'] = Append(Fits[reg], e)
      BY <1>3, <2>2
    <3>2. Rejected(e) <=> Len(commands) >= MaxCmds
      BY <1>7, <2>2, LimitsAssumption DEF Rejected
    <3>3. FirstCmds(Append(Fits[reg], e)) =
            IF Len(FirstCmds(Fits[reg])) >= MaxCmds THEN FirstCmds(Fits[reg])
            ELSE Append(FirstCmds(Fits[reg]), e)
      <4> HIDE DEF e
      <4> QED
        BY <1>2, <1>4, FirstCmdsAppend
    <3> QED
      BY <1>4, <1>6, <3>1, <3>2, <3>3
  <2> QED
    BY <1>7, <2>1, <2>2, LimitsAssumption
<1> QED
  BY <1>1, <1>5, <1>8 DEF TableInv

(* Once main listens the table stays.                                      *)
LEMMA TableStays ==
  ASSUME LInv, UNCHANGED <<commands, reg>>, phase # "register",
         phase' = "receive" => Names(commands, cmd', commands[cmd'].c)
  PROVE  TableInv'
  BY DEF LInv, TableInv

LEMMA LInvStep == LInv /\ [Next]_vars => LInv'
<1> SUFFICES ASSUME LInv, [Next]_vars PROVE LInv'
  OBVIOUS
<1>s. SInv'
  BY SInvStep DEF LInv
<1>t. TableType /\ ParserType /\ CallType
  BY TypeParts DEF LInv, SInv
<1>q. TableInv' /\ CallInv' => LInv'
  BY <1>s DEF LInv
<1>1. CASE simpleserial_addcmd
  BY <1>1, <1>q, TableGrows DEF LInv, CallInv, simpleserial_addcmd
<1>2. CASE Listen
  BY <1>2, <1>q DEF LInv, TableInv, CallInv, Listen
<1>3. ASSUME NEW c \in Chars, GetCommand(c) PROVE LInv'
  <2>1. phase = "idle" /\ phase' \in {"idle", "receive"} /\ UNCHANGED <<commands, reg, call>>
    BY <1>3 DEF GetCommand, Leave
  <2>2. phase' = "receive" => Names(commands, cmd', commands[cmd'].c)
    BY <1>3 DEF GetCommand, Leave, Names
  <2> QED
    BY <1>q, <2>1, <2>2, TableStays DEF LInv, CallInv
<1>4. ASSUME NEW c \in Chars, GetData(c) PROVE LInv'
  <2>1. /\ phase = "receive" /\ UNCHANGED <<commands, reg, call>>
        /\ phase' = "idle" \/ UNCHANGED <<phase, cmd>>
    BY <1>4 DEF GetData, Leave
  <2>2. phase' = "receive" => Names(commands, cmd', commands[cmd'].c)
    BY <2>1 DEF LInv, TableInv
  <2>3. phase' \in {"idle", "receive"}
    BY <2>1
  <2> QED
    BY <1>q, <2>1, <2>2, <2>3, TableStays DEF LInv, CallInv
<1>5. ASSUME NEW c \in Chars, GetTerminator(c) PROVE LInv'
  <2>1. phase = "receive" /\ phase' # "receive" /\ UNCHANGED <<commands, reg>>
    BY <1>5 DEF GetTerminator, Leave
  <2>2. CallInv'
    <3>1. CASE c \in Newlines /\ AllHex(ascii_buf)
      <4>1. phase' = "callback" /\ call'.c = commands[cmd].c
        BY <1>5, <3>1 DEF GetTerminator
      <4>2. commands[cmd].c \in Letters
        BY <1>t, <2>1, EntryType DEF ParserType
      <4>3. call' # NoCall
        BY <4>1, <4>2, LettersAssumption DEF NoCall
      <4> QED
        BY <4>1, <4>3 DEF CallInv
    <3>2. CASE ~(c \in Newlines /\ AllHex(ascii_buf))
      BY <1>5, <3>2, <2>1 DEF GetTerminator, Leave, LInv, CallInv
    <3> QED
      BY <3>1, <3>2
  <2> QED
    BY <1>q, <2>1, <2>2, TableStays
<1>6. CASE Callback
  BY <1>6, <1>q, TableStays DEF LInv, CallInv, Callback
<1>7. CASE Acknowledge
  BY <1>7, <1>q, TableStays DEF LInv, CallInv, Acknowledge, Leave
<1>8. CASE UNCHANGED vars
  BY <1>8, <1>q DEF LInv, TableInv, CallInv, Names, vars
<1> QED
  BY <1>1, <1>2, <1>3, <1>4, <1>5, <1>6, <1>7, <1>8 DEF Next, simpleserial_get

(* Once main listens, the table is the one the registrations are to give,  *)
(* the first entry with its letter is the one being received, and a call   *)
(* is in progress exactly while its command runs or is answered.           *)
THEOREM LineInvariance == Spec => []LInv
  BY LInvInit, LInvStep, PTL DEF Spec

(* A letter names one entry of a table. *)
LEMMA NamesUnique ==
  ASSUME NEW table, NEW c, NEW k \in 1 .. Len(table), NEW n \in 1 .. Len(table),
         Len(table) \in Nat, Names(table, k, c), Names(table, n, c)
  PROVE  k = n
<1>1. k < n => FALSE
  BY DEF Names
<1>2. n < k => FALSE
  BY DEF Names
<1> QED
  BY <1>1, <1>2

(* What a text requests is what its one entry makes of it.                 *)
LEMMA RequestOf ==
  ASSUME Len(Table) \in Nat, NEW text, NEW n \in 1 .. Len(Table),
         SpellsEntry(Table, n, text)
  PROVE  Request(text) = CallOf(text, Table[n].len)
<1> DEFINE entries == {k \in 1 .. Len(Table) : SpellsEntry(Table, k, text)}
<1>1. n \in entries
  OBVIOUS
<1>2. \A k \in entries : k = n
  BY NamesUnique DEF SpellsEntry
<1>3. (CHOOSE k \in entries : TRUE) = n
  BY <1>1, <1>2
<1> QED
  BY <1>1, <1>3 DEF Request

LEMMA RequestSpelled ==
  ASSUME NEW text, Request(text) # NoCall
  PROVE  \E n \in 1 .. Len(Table) : SpellsEntry(Table, n, text)
  BY DEF Request

(* The end of a text, from one of its characters on. *)
LEMMA EndingType ==
  ASSUME NEW S, NEW s \in Seq(S), NEW k \in 1 .. Len(s)
  PROVE  /\ SubSeq(s, k, Len(s)) \in Seq(S)
         /\ Len(SubSeq(s, k, Len(s))) = Len(s) - k + 1
         /\ \A i \in 0 .. Len(s) - k : SubSeq(s, k, Len(s))[i + 1] = s[k + i]
  OBVIOUS

(* A command that is executed was requested by the end of its line, from   *)
(* the letter the parser has taken for the start of the command.           *)
LEMMA CallIsEnding ==
  ASSUME LInv, NEW c \in Newlines, GetTerminator(c), AllHex(ascii_buf),
         NEW text, text = LS!Ending(line, Len(ascii_buf) + 1)
  PROVE  /\ Len(ascii_buf) + 1 \in 1 .. Len(line)
         /\ text # <<>> /\ text[1] = commands[cmd].c /\ commands[cmd].c \in Letters
         /\ call' = Request(text)
<1> DEFINE start == Len(line) - Len(ascii_buf)
<1>t. TableType /\ ParserType /\ LineType /\ TableInv /\ InStep
  BY TypeParts DEF LInv, SInv
<1>1. /\ phase = "receive" /\ Missing = 0
      /\ call' = [c |-> commands[cmd].c,
                  data |-> hex_decode(ascii_buf, commands[cmd].len)]
  BY DEF GetTerminator
<1>2. commands = Table /\ Names(commands, cmd, commands[cmd].c)
  BY <1>t, <1>1 DEF TableInv, Table
<1>3. /\ cmd \in 1 .. Len(commands) /\ Len(commands) \in Nat
      /\ commands[cmd].c \in Letters /\ commands[cmd].len \in Nat
  <2>1. cmd \in 1 .. Len(commands) /\ Len(commands) \in Nat
    BY <1>t, <1>1 DEF ParserType, TableType
  <2> QED
    BY <1>t, <2>1, EntryType
<1>4. /\ Len(line) \in Nat /\ Len(ascii_buf) \in Nat /\ start > 0
      /\ line[start] = commands[cmd].c
      /\ \A i \in 1 .. Len(ascii_buf) : ascii_buf[i] = line[start + i]
  BY <1>t, <1>1 DEF LineType, ParserType, InStep
<1>5. /\ text \in Seq(Chars \ Newlines) /\ Len(text) = Len(ascii_buf) + 1
      /\ text[1] = line[start]
      /\ \A i \in 1 .. Len(ascii_buf) : text[i + 1] = line[start + i]
  <2>1. text = SubSeq(line, start, Len(line))
    <3>1. Len(line) - (Len(ascii_buf) + 1) + 1 = start
      BY <1>4
    <3> QED
      BY <3>1 DEF LS!Ending
  <2>2. start \in 1 .. Len(line) /\ Len(line) - start = Len(ascii_buf)
    BY <1>4
  <2>3. /\ text \in Seq(Chars \ Newlines) /\ Len(text) = Len(line) - start + 1
        /\ \A i \in 0 .. Len(line) - start : text[i + 1] = line[start + i]
    <3> DEFINE L == Chars \ Newlines
    <3>1. line \in Seq(L)
      BY <1>t DEF LineType
    <3> HIDE DEF start, L
    <3>2. /\ SubSeq(line, start, Len(line)) \in Seq(L)
          /\ Len(SubSeq(line, start, Len(line))) = Len(line) - start + 1
          /\ \A i \in 0 .. Len(line) - start :
               SubSeq(line, start, Len(line))[i + 1] = line[start + i]
      BY <2>2, <3>1, EndingType
    <3> QED
      BY <2>1, <3>2 DEF L
  <2>4. text[0 + 1] = line[start + 0] /\ start + 0 = start
    BY <1>4, <2>2, <2>3
  <2> QED
    BY <1>4, <2>2, <2>3, <2>4
<1>6. Digits(text) = ascii_buf
  <2>1. Len(text) - 1 = Len(ascii_buf)
    BY <1>4, <1>5
  <2>2. Digits(text) = [i \in 1 .. Len(ascii_buf) |-> text[i + 1]]
    BY <2>1, Zenon DEF Digits
  <2>3. ascii_buf = [i \in 1 .. Len(ascii_buf) |-> ascii_buf[i]]
    BY <1>t DEF ParserType
  <2>4. \A i \in 1 .. Len(ascii_buf) : ascii_buf[i] = text[i + 1]
    BY <1>4, <1>5
  <2> QED
    BY <2>2, <2>3, <2>4
<1>7. Len(ascii_buf) = 2 * commands[cmd].len
  BY <1>1, <1>3, <1>4 DEF Missing
<1>8. text # <<>>
  BY <1>4, <1>5
<1>9. SpellsEntry(Table, cmd, text)
  <2>1. Names(Table, cmd, text[1])
    BY <1>2, <1>4, <1>5
  <2>2. Len(text) = 1 + 2 * Table[cmd].len
    BY <1>2, <1>3, <1>5, <1>7
  <2>3. AllHex(Digits(text))
    BY <1>6
  <2> QED
    BY <1>8, <2>1, <2>2, <2>3 DEF SpellsEntry
<1>10. Request(text) = CallOf(text, Table[cmd].len)
  BY <1>2, <1>3, <1>9, RequestOf
<1>11. CallOf(text, Table[cmd].len) = call'
  BY <1>1, <1>2, <1>4, <1>5, <1>6 DEF CallOf
<1> QED
  BY <1>3, <1>4, <1>5, <1>8, <1>10, <1>11

(* A character that does not end the line.                                 *)
LEMMA LineServerTypes ==
  ASSUME LInv, NEW c \in Chars, c \notin Newlines, simpleserial_get(c)
  PROVE  LS!Type(c)
<1>1. phase \in {"idle", "receive"} /\ phase' \in {"idle", "receive"}
  BY DEF simpleserial_get, GetCommand, GetData, GetTerminator, Leave
<1>2. Sent(c) /\ UNCHANGED call
  BY DEF simpleserial_get, GetCommand, GetData, GetTerminator
<1>3. line' = Append(line, c) /\ answer' = NoCall
  BY <1>2 DEF Sent
<1>4. call = NoCall
  BY <1>1 DEF LInv, CallInv
<1> QED
  BY <1>1, <1>2, <1>3, <1>4 DEF LS!Type

(* An end of line.                                                         *)
LEMMA LineServerEnters ==
  ASSUME LInv, NEW c \in Chars, c \in Newlines, simpleserial_get(c)
  PROVE  LS!Enter
<1>1. phase \in {"idle", "receive"} /\ phase' # "register"
  BY DEF simpleserial_get, GetCommand, GetData, GetTerminator, Leave
<1>2. line' = <<>> /\ answer' = NoCall
  BY DEF simpleserial_get, GetCommand, GetData, GetTerminator, Sent
<1>3. call = NoCall
  BY <1>1 DEF LInv, CallInv
<1>4. ASSUME Request(line) # NoCall PROVE call' = Request(line)
  <2>1. commands = Table /\ Len(commands) \in Nat
    BY <1>1, TypeParts DEF LInv, TableInv, Table, SInv, TableType
  <2>2. PICK n \in 1 .. Len(Table) : SpellsEntry(Table, n, line)
    BY <1>4, RequestSpelled
  <2>3. line # <<>>
    BY <2>2 DEF SpellsEntry
  <2>4. call' = CallOf(line, commands[n].len)
    BY <1>1, <1>2, <2>1, <2>2, <2>3, LineExecutedStep DEF LInv, Next
  <2> QED
    BY <2>1, <2>2, <2>4, RequestOf
<1>5. call' = NoCall \/ \E n \in 1 .. Len(line) : call' = Request(LS!Ending(line, n))
  <2>1. CASE GetTerminator(c) /\ AllHex(ascii_buf)
    BY <2>1, CallIsEnding
  <2>2. CASE ~(GetTerminator(c) /\ AllHex(ascii_buf))
    BY <1>3, <2>2 DEF simpleserial_get, GetCommand, GetData, GetTerminator
  <2> QED
    BY <2>1, <2>2
<1> QED
  BY <1>1, <1>2, <1>3, <1>4, <1>5 DEF LS!Enter

LEMMA LineServerStep ==
  LInv /\ [Next]_vars => [LS!Next]_(LS!vars)
<1> SUFFICES ASSUME LInv, [Next]_vars, ~UNCHANGED LS!vars PROVE LS!Next
  OBVIOUS
<1>1. ~simpleserial_addcmd /\ ~Callback /\ ~UNCHANGED vars
  BY DEF simpleserial_addcmd, Callback, vars, LS!vars
<1>2. CASE Listen
  BY <1>2 DEF Listen, LS!Next, LS!Start
<1>3. ASSUME NEW c \in Chars, simpleserial_get(c) PROVE LS!Next
  <2>1. CASE c \in Newlines
    BY <1>3, <2>1, LineServerEnters DEF LS!Next
  <2>2. CASE c \notin Newlines
    BY <1>3, <2>2, LineServerTypes DEF LS!Next
  <2> QED
    BY <2>1, <2>2
<1>4. CASE Acknowledge
  <2>1. ret \in Status /\ call # NoCall
    BY <1>4 DEF Acknowledge, LInv, CallInv
  <2>2. LS!Reply(ret)
    BY <1>4, <2>1 DEF Acknowledge, Leave, LS!Reply
  <2> QED
    BY <2>1, <2>2 DEF LS!Next
<1> QED
  BY <1>1, <1>2, <1>3, <1>4 DEF Next

(* The character-level parser implements the line server: a line that      *)
(* spells a request is executed with its data, whatever came before it, at *)
(* most the end of any other line is, and every execution is answered with *)
(* its own status before the next character is looked at.                  *)
THEOREM LineServerImplemented == Spec => ImplementsLineServer
<1>1. Init => LS!Init
  BY DEF Init, LS!Init
<1> QED
  BY <1>1, LineServerStep, LineInvariance, PTL
  DEF Spec, ImplementsLineServer, LS!Spec

(* Nothing of a line that is a letter and digits, but of the wrong number  *)
(* of digits, is executed. The hypothesis holds of the firmware: v, k, p,  *)
(* q, h, w, l, j, g, m and n are not hexadecimal digits.                   *)
THEOREM WrongLengthIgnoredHolds ==
  ASSUME Letters \intersect HexChars = {}
  PROVE  Spec => WrongLengthIgnored
<1>1. ASSUME LInv, [Next]_vars, call' # call, call' # NoCall,
             line # <<>>, line[1] \in Letters, AllHex(Digits(line))
      PROVE  call' = Request(line)
  <2>1. PICK c \in Chars : GetTerminator(c) /\ c \in Newlines /\ AllHex(ascii_buf)
    BY <1>1 DEF Next, simpleserial_get, simpleserial_addcmd, Listen, GetCommand,
                GetData, GetTerminator, Callback, Acknowledge, vars
  <2> DEFINE n == Len(ascii_buf) + 1
             text == LS!Ending(line, n)
  <2>2. /\ n \in 1 .. Len(line) /\ text[1] \in Letters /\ call' = Request(text)
    BY <1>1, <2>1, CallIsEnding
  <2>3. line \in Seq(Chars \ Newlines) /\ Len(line) \in Nat
    BY <1>1, TypeParts DEF LInv, SInv, LineType
  <2>4. text[1] = line[Len(line) - n + 1]
    BY <2>2, <2>3 DEF LS!Ending
  <2>5. Len(line) - n + 1 = 1
    <3>1. SUFFICES ASSUME Len(line) - n + 1 # 1 PROVE FALSE
      OBVIOUS
    <3> DEFINE i == Len(line) - n
    <3>2. i \in 1 .. Len(line) - 1 /\ i + 1 = Len(line) - n + 1
      BY <2>2, <2>3, <3>1
    <3>3. Digits(line)[i] = line[i + 1] /\ i \in 1 .. Len(Digits(line))
      BY <2>3, <3>2 DEF Digits
    <3>4. line[i + 1] \in HexChars
      BY <1>1, <3>3 DEF AllHex
    <3> QED
      BY <2>2, <2>4, <3>2, <3>4
  <2>6. text = line
    BY <2>2, <2>3, <2>5 DEF LS!Ending
  <2> QED
    BY <2>2, <2>6
<1>2. LInv /\ [Next]_vars =>
        [(/\ call' # call /\ call' # NoCall
          /\ line # <<>> /\ line[1] \in Letters /\ AllHex(Digits(line)))
         => call' = Request(line)]_vars
  BY <1>1
<1> QED
  BY <1>2, LineInvariance, PTL DEF Spec, WrongLengthIgnored
=============================================================================
