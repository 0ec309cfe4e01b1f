---- MODULE MCConnection ----
(* The window and its Telegram clients, on small instances. *)
EXTENDS Connection
====
