---------------------------- MODULE SigningDevice ----------------------------
(***************************************************************************)
(* What the device promises its owner, with nothing of how it is done.     *)
(*                                                                         *)
(* A review of some bytes under a key path may be open on the screen.  A   *)
(* signature leaves the device only when an open review is approved, it is *)
(* made under the path and over the bytes that review was opened for, and  *)
(* the approval closes the review: a second signature takes a second       *)
(* review.                                                                 *)
(***************************************************************************)
CONSTANTS PathOf,   \* what a BIP32 path in memory may be
          BytesOf,  \* what may be reviewed and signed
          Nothing   \* no review is open, the last reply is not a signature

VARIABLES review,   \* the open transaction review, or Nothing
          output    \* the last reply if it is a signature, or Nothing

deviceVars == <<review, output>>

Reviews == [path : PathOf, bytes : BytesOf]

DeviceInit == review = Nothing /\ output = Nothing

(* The device shows a transaction, and the host waits. *)
Open == /\ review = Nothing
        /\ review' \in Reviews
        /\ output' = Nothing

(* The owner approves what is shown. *)
ApproveReview == /\ review # Nothing
                 /\ review' = Nothing
                 /\ output' = review

(* The owner refuses, signing fails, or the application ends. *)
Close == /\ review # Nothing
         /\ review' = Nothing
         /\ output' = Nothing

(* The host asks for something else. *)
Forget == /\ review = Nothing
          /\ output' = Nothing
          /\ UNCHANGED review

DeviceNext == Open \/ ApproveReview \/ Close \/ Forget

DeviceSpec == DeviceInit /\ [][DeviceNext]_deviceVars
==============================================================================
