------------------------------ MODULE MCSession ------------------------------
(***************************************************************************)
(* Session on a small instance.  The chunks stand for the inputs the       *)
(* session tells apart: a transaction complete in one chunk, one that      *)
(* needs a second, one the screens cannot show, one the parser does not    *)
(* return from.                                                            *)
(***************************************************************************)
EXTENDS Session

CONSTANTS p1, p2,                    \* paths
          whole, half, wide, endless \* chunks

MCPath == {p1, p2}
MCSymmetry == Permutations(MCPath)
MCChunk == {whole, half, wide, endless}
MCSize == [c \in MCChunk |-> IF c = half THEN 2 ELSE 1]

(* The buffer holds three chunks; a command carries two bytes. *)
MCMaxTransactionLen == 3
MCMaxApduSize == 2
MCP1 == 0..2
MCIndexInBounds == 0..1

(* What follows a complete transaction is not read. *)
MCTx == {"small", "long", "unshowable"}
MCDisplayable == {"small", "long"}
MCParse(raw) ==
    CASE raw[1] = whole -> "small"
      [] raw[1] = wide -> "unshowable"
      [] raw[1] = half -> IF Len(raw) > 1 THEN "long" ELSE ParseFault
      [] OTHER -> ParseNoEnd

(* No flag, the usual one, or both; and the usual ones only. *)
MCSignInfo == {[odd |-> odd, xGTn |-> FALSE] : odd \in BOOLEAN}
              \cup {[odd |-> TRUE, xGTn |-> TRUE]}
MCUsualSignInfo == [odd : BOOLEAN, xGTn : {FALSE}]

MCInterfaces == {"BAGL", "NBGL"}
MCBagl == {"BAGL"}
MCNbgl == {"NBGL"}
==============================================================================
