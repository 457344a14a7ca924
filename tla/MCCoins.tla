------------------------------- MODULE MCCoins -------------------------------
(***************************************************************************)
(* The two views of the coins database in one run: its layers, each call   *)
(* one action (CoinsViews), and the concurrent loads of coins into the     *)
(* shared cache, step by step (CoinsFetch).  A behaviour is one of the     *)
(* layers or one of the loads (`active').  The loads have two scripts of   *)
(* which the cache has room for one.                                       *)
(***************************************************************************)
EXTENDS CoinsViews, CoinsFetch, TLC

CONSTANTS o1, o2

MCSize == o1 :> 1 @@ o2 :> 2

VARIABLE active   \* "layers" or "loads"

allVars == <<active, vars, fetchVars>>

\* The initial contents of the database are those of the part that runs.
MCInit ==
  /\ active \in {"layers", "loads"}
  /\ Init /\ FetchInit
  /\ active = "layers" => db = {}
  /\ active = "loads" => disk = [o \in Outpoints |-> NoCoin]

LayersStep == active = "layers" /\ Next /\ UNCHANGED <<active, fetchVars>>
LoadsStep == active = "loads" /\ FetchNext /\ UNCHANGED <<active, vars>>

MCNext == LayersStep \/ LoadsStep

\* The fairness of CoinsFetch; CoinsViews needs none.
MCSpec ==
  /\ MCInit /\ [][MCNext]_allVars
  /\ \A r \in Readers : WF_fetchVars(active = "loads" /\ ~aborted /\ ReaderStep(r))
=============================================================================
