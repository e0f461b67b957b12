------------------------------ MODULE MCOutbox ------------------------------
(***************************************************************************)
(* Instances of Outbox for TLC: two broadcasts of an analyst who may send   *)
(* one a day, a bet and its settlement.  The reader takes mail, but for     *)
(* settlements, and has linked Telegram; a second one switched Telegram on  *)
(* and never linked it.                                                    *)
(***************************************************************************)
EXTENDS Outbox

MCKind == [e \in Events |-> CASE e \in {"b1", "b2"} -> "broadcast"
                              [] e = "bet" -> "bet"
                              [] e = "alert" -> "alert"
                              [] e = "approval" -> "approval"
                              [] OTHER -> "settlement"]
MCAbout == [e \in Events |-> IF e \in {"bet", "result", "alert"} THEN "ticket" ELSE e]
MCAudience == [e \in Events |-> IF e = "b2" THEN Readers ELSE {"r1"}]
MCEmail == [r \in Readers |-> IF r = "r1" THEN {"broadcast"} ELSE {}]
MCTelegram == [r \in Readers |-> IF r = "r1" THEN "chat" ELSE "nochat"]
=============================================================================
