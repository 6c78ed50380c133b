----------------------------- MODULE MCSessions -----------------------------
(***************************************************************************)
(* Small instances of Sessions for TLC: who connects from where, as what.  *)
(***************************************************************************)
EXTENDS Sessions, TLC

CONSTANTS p1, p2

At(place, identity, db) == [place |-> place, identity |-> identity, db |-> db]

(* The root client's fixed address, a root at another address, a user.     *)
RootsAndUser == {At("root", "ROOT", BaseDb), At("a", "ROOT", BaseDb), At("b", "USER", "d")}

(* Users of two databases.                                                 *)
RootAndUser == {At("root", "ROOT", BaseDb), At("a", "USER", "d")}

(* The first program runs two clients, one after the other.                *)
TwoAndOne == p1 :> 2 @@ p2 :> 1
OneEach == p1 :> 1 @@ p2 :> 1

(* The first two numbers of queue_list_range.                              *)
TwoIds == <<1, 3>>
OneId == <<1>>
=============================================================================
