--------------------------- MODULE MCContractDeltas ---------------------------
(* Three services on one host: esm-infra, whose repository is the bare     *)
(* host on the older release and may change on the newer one, esm-apps     *)
(* and fips.                                                               *)
EXTENDS ContractDeltas

MCRepos == {"esm", "esm/apps", "esm/fips", "esm/infra", "esm/infra2"}
MCTokens == {"t1", "t2"}
MCHost == [r \in MCRepos |-> "esm"]

(* "esm/infra" is the beginning of "esm/infra2".                           *)
MCContained == [r \in MCRepos |->
  {r, "esm"} \union (IF r = "esm/infra2" THEN {"esm/infra"} ELSE {})]

MCNames == <<"esm-apps", "esm-infra", "fips">>

Offer(e, old, current, t) == [entitled |-> e, url |-> <<old, current>>, token |-> t]

MCOffers == [s \in {"esm-apps", "esm-infra", "fips"} |->
  IF s = "esm-apps" THEN
    {Absent, Offer(TRUE, "esm/apps", "esm/apps", "t1"),
     Offer(TRUE, "esm/apps", "esm/apps", "t2"), Offer(FALSE, "esm/apps", "esm/apps", "t1")}
  ELSE IF s = "esm-infra" THEN
    {Absent, Offer(TRUE, "esm", "esm/infra", "t1"),
     Offer(TRUE, "esm/infra", "esm/infra", "t1"),
     Offer(TRUE, "esm/infra2", "esm/infra2", "t1"), Offer(FALSE, "esm", "esm/infra", "t1")}
  ELSE {Absent, Offer(TRUE, "esm/fips", "esm/fips", "t1")}]
=============================================================================
