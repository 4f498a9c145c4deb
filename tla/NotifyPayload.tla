--------------------------- MODULE NotifyPayload ---------------------------
(***************************************************************************)
(* The payload of a database change notification on channel "rcfile" and  *)
(* how FileManager::Impl::processDBNotification decodes it.               *)
(*                                                                         *)
(* A payload is a sequence of one-character strings.  Encode is the       *)
(* format the database trigger sends (spec section 6: <tag><fileId> for   *)
(* deletes, <tag><fileId>/<workspaceId> for inserts and updates); it is   *)
(* the environment, not code of this repository.  The Parse operators    *)
(* translate the C++ decoding: msgStr[0], atol(&msgStr[1]) and a getline  *)
(* up to '/' on an istringstream built from &msgStr[2].                   *)
(***************************************************************************)
EXTENDS Naturals, Sequences, SequencesExt

Tags == {"i", "u", "d"}

DigitChars == <<"0", "1", "2", "3", "4", "5", "6", "7", "8", "9">>

IsDigit(c) == \E d \in 1..10 : DigitChars[d] = c

DigitValue(c) == CHOOSE d \in 0..9 : DigitChars[d + 1] = c

\* Decimal rendering of a natural number, most significant digit first.
RECURSIVE Decimal(_)
Decimal(n) ==
    IF n < 10 THEN <<DigitChars[n + 1]>>
    ELSE Decimal(n \div 10) \o <<DigitChars[(n % 10) + 1]>>

\* The payload the trigger sends for a change of kind tag to file id in
\* workspace ws.
Encode(tag, id, ws) ==
    IF tag = "d" THEN <<tag>> \o Decimal(id)
    ELSE <<tag>> \o Decimal(id) \o <<"/">> \o Decimal(ws)

(***************************************************************************)
(* atol: the value of the longest prefix of decimal digits, 0 if there is *)
(* none.  The payload alphabet has no blanks or signs to skip.            *)
(***************************************************************************)
RECURSIVE AtolFrom(_, _)
AtolFrom(s, acc) ==
    IF s = <<>> \/ ~IsDigit(Head(s)) THEN acc
    ELSE AtolFrom(Tail(s), acc * 10 + DigitValue(Head(s)))

Atol(s) == AtolFrom(s, 0)

\* The suffix of s starting at (1-based) index i, like &msgStr[i-1].
From(s, i) == IF i > Len(s) THEN <<>> ELSE SubSeq(s, i, Len(s))

\* The guard at the top of processDBNotification: a known tag and at least
\* two characters; anything else is logged and dropped.
WellFormed(msg) == Len(msg) >= 1 /\ msg[1] \in Tags /\ Len(msg) >= 2

ParseTag(msg) == msg[1]

\* Mutant: the id read from one character too far (&msgStr[2]).
ParseFileIdSkipsDigit(msg) == Atol(From(msg, 3))

\* long fileId = atol(&msgStr[1]);
ParseFileId(msg) == Atol(From(msg, 2))

\* istringstream ss(&msgStr[2]); getline(ss, wstr, '/') fails only when the
\* stream is empty, which processDBNotification turns into an exception.
WspaceParsable(msg) == From(msg, 3) # <<>>

\* fileWspace = atol(wstr), wstr being the characters of &msgStr[2] before
\* the first '/'.
ParseWspace(msg) ==
    LET rest  == From(msg, 3)
        slash == SelectInSeq(rest, LAMBDA c : c = "/")
        wstr  == IF slash = 0 THEN rest ELSE SubSeq(rest, 1, slash - 1)
    IN  Atol(wstr)

=============================================================================
