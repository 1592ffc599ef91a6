---------------------------- MODULE MCPlatformApi ----------------------------
(* Instances of PlatformApi for TLC. *)
EXTENDS PlatformApi, TLC

Named == {-1}

Symmetry == Permutations(Replicas) \cup Permutations(Handlers) \cup Permutations(Keys)

\* Resources that some replica has changed.
Changed == UNION {{id \in DOMAIN mem[r].items : mem[r].items[id].stamp > 4} : r \in Replicas}

Busy == {w \in Replicas \X Handlers : work[w[1]][w[2]] # Idle}

\* A behaviour makes three changes to one API key, where the clock moves after
\* the second, or two to resources of one kind with one idempotency key while
\* the clock stands; two requests are under way at a time, on one replica or
\* on two.
AboutOneKey ==
    /\ Cardinality(Changed) <= 1
    /\ Changed \subseteq UNION {Owners(r, "api-key") : r \in Replicas}
    /\ now = 0 \/ next >= 7

AboutOneKind ==
    /\ next <= 7 /\ now = 0
    /\ Cardinality(UNION {{mem[r].items[id].kind : id \in Changed \cap DOMAIN mem[r].items} :
                             r \in Replicas}) <= 1
    /\ Cardinality(UNION {{ck[3] : ck \in DOMAIN mem[r].cache} : r \in Replicas}) <= 1

Focus == (AboutOneKey \/ AboutOneKind) /\ Cardinality(Busy) <= 2
=============================================================================
