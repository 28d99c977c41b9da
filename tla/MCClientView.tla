----------------------------- MODULE MCClientView -----------------------------
(* One project runs, another one only opens. *)
EXTENDS ClientView

MCContext == {"a", "b"}
MCMaxEvents == [c \in MCContext |-> IF c = "a" THEN 4 ELSE 0]
MCMaxChanges == [c \in MCContext |-> IF c = "a" THEN 3 ELSE 0]
===============================================================================
