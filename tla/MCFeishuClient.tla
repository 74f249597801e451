---------------------------- MODULE MCFeishuClient ----------------------------
(* A member that saves a binding, replaces it and deletes it.               *)
EXTENDS FeishuClient

CONSTANTS save1, save2, delete

Requests == {save1, save2, delete}
Kinds == [o \in Ops |-> IF o = delete THEN "delete" ELSE "save"]
===============================================================================
