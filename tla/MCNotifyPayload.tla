-------------------------- MODULE MCNotifyPayload --------------------------
(***************************************************************************)
(* Checks the notification decoding of NotifyPayload against the values  *)
(* that were encoded, over every tag, every file id below MaxId and every *)
(* workspace id below MaxWs.  The checked message is chosen by Init and   *)
(* never changes.                                                          *)
(***************************************************************************)
EXTENDS NotifyPayload

CONSTANTS
    MaxId,  \* largest file id encoded
    MaxWs   \* largest workspace id encoded

ASSUME MaxId \in Nat /\ MaxWs \in Nat

VARIABLE note   \* [tag, id, ws]: the change the trigger reports

Init == note \in [tag : Tags, id : 0..MaxId, ws : 0..MaxWs]

Next == UNCHANGED note

Spec == Init /\ [][Next]_note

Msg == Encode(note.tag, note.id, note.ws)

\* Every payload the trigger sends passes the well-formedness guard of
\* processDBNotification and yields the tag and file id it was built from,
\* whatever the number of digits of the id.
FileIdRoundTrip ==
    /\ WellFormed(Msg)
    /\ ParseTag(Msg) = note.tag
    /\ ParseFileId(Msg) = note.id

\* For inserts and updates processDBNotification recovers the workspace id
\* the trigger wrote after the '/', which the 'i' branch compares with the
\* session's workspace (spec section 8: "i5/1" with workspace 1 reloads
\* file 5).
WspaceRoundTrip ==
    note.tag # "d" =>
        /\ WspaceParsable(Msg)
        /\ ParseWspace(Msg) = note.ws

=============================================================================
