---------------------------- MODULE BatchContent ----------------------------
(***************************************************************************)
(* Which message's content the worker loop of SubscriberBackgroundService  *)
(* reports: messageContent is declared once for a batch and, unlike        *)
(* message, not cleared between its entries; the catch block records it in *)
(* the ErrorInfo of the entry in hand, which is kept once it is there.     *)
(*                                                                         *)
(* These variables only watch Delivery: Track says what each of its steps  *)
(* does to them, and forbids none.                                         *)
(***************************************************************************)
EXTENDS Delivery

CONSTANT NoMsg

ASSUME ContentAssumption == NoMsg \notin Msgs

VARIABLES
    messageContent,     \* per worker: the message it was deserialized from
    messageErrorInfo,   \* per worker: the content in the one it will write
    reported            \* per message: the content in the field ErrorInfo

contentVars == <<messageContent, messageErrorInfo, reported>>

InitContent ==
    /\ messageContent = [w \in Workers |-> NoMsg]
    /\ messageErrorInfo = [w \in Workers |-> NoMsg]
    /\ reported = [m \in Msgs |-> NoMsg]

-----------------------------------------------------------------------------

\* Mistake: the content is assigned after the pipeline of Begin.
DeserializedLate(w) == wpc[w] = "loop" /\ wpc'[w] = "exec"

\* The step of w got past Deserialize: Begin or BeginError.
Deserialized(w) == wpc[w] = "loop" /\ wpc'[w] # "loop" /\ Message(w) \notin Poison

\* The end of the batch ends the scope of messageContent.
TrackContent ==
    messageContent' = [w \in Workers |-> IF batch'[w] = {} THEN NoMsg
                                         ELSE IF Deserialized(w) THEN Message(w)
                                         ELSE messageContent[w]]

\* The catch block reads ErrorInfo and makes a new one only if there is none.
TrackErrorInfo ==
    messageErrorInfo' =
        [w \in Workers |-> IF wpc'[w] = "loop" THEN NoMsg
                           ELSE IF wpc[w] = "error" /\ wpc'[w] \in {"retry", "giveup"}
                             THEN IF hash[Message(w)].err THEN reported[Message(w)]
                                                          ELSE messageContent[w]
                           ELSE messageErrorInfo[w]]

\* The pipeline of the catch block was executed: Retry or GiveUp.
Reports(w) == wpc[w] \in {"retry", "giveup"} /\ wpc'[w] = "loop" /\ faults' = faults

\* HSET ErrorInfo.
TrackReports ==
    reported' = [m \in Msgs |-> IF ~hash'[m].err THEN NoMsg
                                ELSE IF \E w \in Workers : Reports(w) /\ Message(w) = m
                                  THEN messageErrorInfo[CHOOSE w \in Workers : Reports(w)]
                                ELSE reported[m]]

Track == TrackContent /\ TrackErrorInfo /\ TrackReports

SpecContent == Init /\ InitContent /\ [][Next /\ Track]_<<vars, contentVars>>

-----------------------------------------------------------------------------

(***************************************************************************)
(* A message that deserializes is reported with its own content, although  *)
(* the variable still holds that of the entry before when the catch block  *)
(* runs for a message that does not, and although others write ErrorInfo.  *)
(* (A message that does not deserialize is reported with what was left.)   *)
(***************************************************************************)
GoodReportsOwn == \A m \in Msgs \ Poison : hash[m].err => reported[m] = m
=============================================================================
