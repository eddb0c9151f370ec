------------------------------- MODULE MCClient -------------------------------
(***************************************************************************)
(* Client on the chunks of MCSession, with a larger buffer: it holds five  *)
(* bytes, a command carries two, so that P1_MAX is two, and a transaction  *)
(* of five bytes fits the buffer but needs a third chunk.                  *)
(***************************************************************************)
EXTENDS Client, MCSession

MCLargerTransactionLen == 5
MCMoreP1 == 0..3

(* Complete in one chunk, in two, in two full ones; faulty; not to be shown;
   not returned from; of a chunk too many; and of none. *)
MCTransactions ==
    {<<whole>>, <<half, whole>>, <<half, half>>, <<half>>, <<wide>>, <<endless>>,
     <<half, half, whole>>, <<>>}
==============================================================================
