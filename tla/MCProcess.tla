----------------------------- MODULE MCProcess -----------------------------
(***************************************************************************)
(* Four families: init, two parents and a traced child of each; init, a    *)
(* process and its child, who do everything else; the same two, of whom    *)
(* one has a group or both have, while the process numbers begin again.    *)
(***************************************************************************)
EXTENDS Process
Left(f, s, t, o) == [fork |-> f, sig |-> s, trace |-> t, open |-> o]
Tracers == [parent |-> <<0, 1, 1, 2, 3>>, group |-> <<0, 0, 0, 0, 0>>, traced |-> {4, 5},
            mpid |-> 5, left |-> Left(0, 0, 0, 0)]
Two(g, m, l) == [parent |-> <<0, 1, 2>>, group |-> g, traced |-> {}, mpid |-> m, left |-> l]
MCBegin == {Tracers, Two(<<0, 0, 0>>, 3, Left(1, 1, 1, 0)),
            Two(<<0, 2, 0>>, PIDMAX - 1, Left(1, 0, 0, 2)),
            Two(<<0, 2, 2>>, PIDMAX - 1, Left(1, 0, 0, 0))}
=============================================================================
