----------------------------- MODULE MCAccounts -----------------------------
(***************************************************************************)
(* Two accounts for TLC: one on a mailbox nobody has proved, signed in, and *)
(* one of a person who came through Telegram.                              *)
(***************************************************************************)
EXTENDS AccountPages, TLC

MCAccounts ==
  [a \in Rows |->
     CASE a = "mail" -> [NewAccount("m", "chosen", None, None) EXCEPT !.verified = FALSE]
       [] a = "tg" -> NewAccount(Placeholder, "random", None, "c")
       [] OTHER -> [NewAccount(None, "none", None, None) EXCEPT !.status = "NONE"]]

(* Which process serves a request does not matter.                         *)
Interchangeable == Permutations(Requests)
=============================================================================
