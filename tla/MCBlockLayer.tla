---------------------------- MODULE MCBlockLayer ----------------------------
(* Programs for BlockLayer: a read-around window of 4 sectors between      *)
(* reads that touch it on both sides, a read that is too long, and         *)
(* discards, which join in the plug and, with an elevator, in the queue.   *)
EXTENDS BlockLayer

Read(sector, size) == [op |-> "read", rahead |-> FALSE, failfast |-> FALSE, sector |-> sector, size |-> size]
Ahead(sector, size) == [Read(sector, size) EXCEPT !.rahead = TRUE]
Erase(sector, size) == [Read(sector, size) EXCEPT !.op = "discard"]

Program(bs, first, second, elevator) ==
  [bios |-> bs, by |-> [t \in Tasks |-> IF t = "t1" THEN first ELSE second], elevator |-> elevator]

MCPrograms ==
  { Program(<<Ahead(2, 4), Read(6, 1)>>, <<1, 2>>, <<>>, e) : e \in BOOLEAN }
    \union { Program(<<Ahead(2, 4), Read(1, 1)>>, <<2, 1>>, <<>>, e) : e \in BOOLEAN }
    \union { Program(<<Read(6, 5)>>, <<1>>, <<>>, FALSE) }
    \union { Program(<<Read(3, 1), Ahead(2, 1), Read(1, 1)>>, <<1, 2>>, <<3>>, e) : e \in BOOLEAN }
    \union { Program(<<Ahead(1, 1), Read(3, 1), Ahead(2, 1)>>, <<1, 3>>, <<2>>, TRUE) }
    \union { Program(<<Read(1, 1), Ahead(3, 1), Read(2, 1)>>, <<>>, <<1, 2, 3>>, e) : e \in BOOLEAN }
    \union { Program(<<Read(6, 2), Read(8, 1)>>, <<>>, <<1, 2>>, FALSE) }
    \union { Program(<<Erase(0, 2), Erase(4, 1), Erase(2, 1)>>, <<1, 2, 3>>, <<>>, FALSE) }
    \union { Program(<<Erase(0, 1), Erase(4, 2), Erase(8, 1)>>, <<1, 2>>, <<3>>, TRUE) }
    \union { Program(<<Erase(0, 3), Erase(4, 1)>>, <<1>>, <<2>>, TRUE) }
    \union { Program(<<Erase(2, 1), Erase(0, 1)>>, <<1>>, <<2>>, TRUE) }
    \union { Program(<<Ahead(2, 4), Ahead(6, 1)>>, <<1>>, <<2>>, e) : e \in BOOLEAN }
=============================================================================
