--------------------------------- MODULE Guest ---------------------------------
(***************************************************************************)
(* NEMU runs one image: the guest is one of the programs modelled, on the  *)
(* abstract machine and its devices.                                       *)
(*   audio       plays sound (AudioRing)                                   *)
(*   cte         switches between threads (Cte)                            *)
(*   library     makes one call of the C library (Klib)                    *)
(*   microbench  is timed (Microbench)                                     *)
(***************************************************************************)
EXTENDS AudioRing, Cte, Microbench

VARIABLES image

guest_all == <<image, vars, cte_vars, library_vars, bench_vars>>

NoCall == [f |-> "none"]

GuestInit ==
  /\ image \in {"audio", "cte", "library", "microbench"}
  /\ setup \in IF image = "microbench" THEN Setups ELSE {CHOOSE s \in Setups : TRUE}
  /\ AudioInit /\ CteStart /\ BenchStart
  /\ image # "microbench" \/ setup.ticks = {} => lowFirst   \* makes no difference
  /\ IF image = "library" THEN LibraryInit ELSE call = NoCall /\ result = << >>

GuestAudio ==
  /\ image = "audio" /\ AudioNext
  /\ UNCHANGED <<image, cte_vars, library_vars, bench_vars>>
GuestCte ==
  /\ image = "cte" /\ CteNext
  /\ UNCHANGED <<image, vars, library_vars, bench_vars>>
GuestLibrary ==
  /\ image = "library" /\ LibraryCall
  /\ UNCHANGED <<image, vars, cte_vars, bench_vars>>
GuestMicrobench ==
  /\ image = "microbench" /\ BenchNext
  /\ UNCHANGED <<image, vars, cte_vars, library_vars>>

GuestNext == GuestAudio \/ GuestCte \/ GuestLibrary \/ GuestMicrobench

GuestSpec == GuestInit /\ [][GuestNext]_guest_all /\ AudioFairness

==============================================================================
