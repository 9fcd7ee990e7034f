---- MODULE MCSearchPage ----
EXTENDS SearchPage
MCStatusOf == [c \in Cards |-> IF c = "c" THEN "active" ELSE "deprecated"]
====
