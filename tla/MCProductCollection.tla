------------------------ MODULE MCProductCollection -------------------------
(* An instance of ProductCollection: the first source has two products, which *)
(* are persisted again unchanged or changed and in another order, the second  *)
(* has one or none, and the third has one.                                    *)
EXTENDS ProductCollection

CONSTANTS Again, p, q

AllCalls == Sources \union Again
AllProducts == {1, 2}
AllKeys == Sources \X AllProducts

Row(s, product, payload) == [key |-> <<s, product>>, payload |-> payload]
Pages ==
  [c \in AllCalls |->
     CASE c \in Again -> {<<Row(1, 1, p), Row(1, 2, p)>>, <<Row(1, 2, q), Row(1, 1, q)>>}
       [] c = 1       -> {<<Row(1, 1, p), Row(1, 2, p)>>}
       [] c = 2       -> {<< >>, <<Row(2, 1, p)>>}
       [] OTHER       -> {<<Row(c, 1, p)>>}]
=============================================================================
