---------------------------- MODULE MCOepSession ----------------------------
(***************************************************************************)
(* Instances of OepSession for TLC: two pages of two addresses.            *)
(***************************************************************************)
EXTENDS OepSession, TLC

MCSites == {ProtectFn}
Faults == {<<"fault", "app">>}

(* All at once, one page of it, with and without execute.                  *)
Unpacking == {<<0, 4, "rx">>, <<0, 2, "rwx">>, <<0, 2, "rw">>}

OneCallback == <<3>>
=============================================================================
