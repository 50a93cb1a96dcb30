--------------------------- MODULE MCRfsTransfer ---------------------------
EXTENDS RfsTransfer

\* Every operation, with a path validate_path accepts and one it rejects; a version
\* that may exist, one that does not.
AllCommands ==
  {c \in [op : Ops, num : {0, 1, 2}, valid : BOOLEAN] :
     /\ c.op # "GETVERSION" => c.num = 0
     /\ c.op = "STOP" => c.valid}

\* Every field arrives in up to two pieces.
TwoPieces == [f \in Fields |-> 2]
=============================================================================
