--------------------------- MODULE SigningExchange ---------------------------
(***************************************************************************)
(* What a caller of the host's library is promised: one call at a time,    *)
(* and the answer of a call is of that call.  A signature is of the bytes  *)
(* and under the path the call was made with, a key is the path's; a call  *)
(* may also end without an answer.                                         *)
(***************************************************************************)
CONSTANTS Requests, \* what may be asked for
          Nothing   \* no call is under way, the last one gave no answer

VARIABLES request,  \* the call under way, or Nothing
          answer    \* what the last call returned, or Nothing

exchangeVars == <<request, answer>>

ExchangeInit == request = Nothing /\ answer = Nothing

Ask == /\ request = Nothing
       /\ request' \in Requests
       /\ answer' = Nothing

Return == /\ request # Nothing
          /\ answer' \in {request, Nothing}
          /\ request' = Nothing

ExchangeNext == Ask \/ Return

ExchangeSpec == ExchangeInit /\ [][ExchangeNext]_exchangeVars
==============================================================================
