---------------------------- MODULE MCEntrySetup ----------------------------
(* The three flows that provision; the options form is e1's. *)
EXTENDS EntrySetup
CONSTANT e1
MCRequests == {<<"repair">>, <<"options", e1>>, <<"user">>}
=============================================================================
