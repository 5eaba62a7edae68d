-------------------------- MODULE MCDirectBaseline -------------------------
(* Small instances of DirectBaseline. *)
EXTENDS DirectBaseline

Released == [guarded |-> TRUE, grounded |-> TRUE, correcting |-> TRUE,
             repairs |-> 1, calls |-> 1]

\* The factory's configuration, what the unit tests vary, and none at all.
MCSettings ==
    {Released,
     [Released EXCEPT !.repairs = 2, !.calls = 2],
     [Released EXCEPT !.repairs = 2, !.grounded = FALSE],
     [Released EXCEPT !.repairs = 0, !.calls = 0],
     [Released EXCEPT !.correcting = FALSE],
     [Released EXCEPT !.guarded = FALSE]}
=============================================================================
