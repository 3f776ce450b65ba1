--------------------------- MODULE MCFuzzController ---------------------------
(* Instances of FuzzController for TLC: a region 1..2 and a third address  *)
(* the target may stop at, and the configurations the runs ask about.      *)
EXTENDS FuzzController

RegionStart == 1
RegionEnd   == 2
Elsewhere   == 3
MCAddr == {RegionStart, RegionEnd, Elsewhere}

(* A memory location before every run and a socket location at the end of  *)
(* every second one, both counted; the memory location also has a location *)
(* trigger, whose breakpoint the target passes.                            *)
MixedKind  == <<"memory", "socket">>
MixedMax   == <<2, 1>>
MixedOwner == <<1, 1, 2>>
MixedType  == <<"start", "location", "end">>
MixedCount == <<0, 0, 2>>
MixedFirst == <<FALSE, FALSE, FALSE>>
MixedAddr  == <<NoAddr, Elsewhere, NoAddr>>

(* A socket location with two triggers, the first with "!", and a memory  *)
(* location before every third run.                                        *)
OtherKind  == <<"socket", "memory">>
OtherMax   == <<1, 2>>
OtherOwner == <<1, 1, 2>>
OtherType  == <<"start", "end", "start">>
OtherCount == <<2, 2, 3>>
OtherFirst == <<TRUE, FALSE, FALSE>>
OtherAddr  == <<NoAddr, NoAddr, NoAddr>>
===============================================================================
