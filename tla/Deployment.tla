------------------------------ MODULE Deployment ------------------------------
(***************************************************************************)
(* The deployment and operation scripts.  Each script is the sequence of   *)
(* its effects: deploying a contract, sending a transaction, writing the   *)
(* manifest.  One script runs at a time, may die between any two effects,  *)
(* and works on the copy of the manifest it loaded when it started; one    *)
(* effect near its end writes that copy back.  A transaction happens       *)
(* whole or is refused; the caller may miss that it happened.              *)
(***************************************************************************)
EXTENDS DiamondCut, FiniteSets

CONSTANTS
    Facets,      \* names of the facets the scripts deploy
    Code,        \* Code[n][r]: the selectors of facet n in release r, <<>> if it has none
    CoreFacets, TradingFacets, PricingFacets, SupportFacets,   \* in the order they are deployed
    UpdatedFacets, NewFacets,                                  \* of the second release
    InitialMarkets, NewMarkets, Tokens,                        \* sequences
    Explored,    \* the facets whose names verify-contracts.js holds
    Purse,       \* how often the funder can fund the vault with a token
    Runs,        \* the runs the operator may choose from, see Program
    MaxRuns, MaxFaults      \* bounds, as MaxAddress is for the contracts deployed

\* The functions every later transaction goes through.
CONSTANTS CutSelector, AdminSelector, LoupeSelector

Names == {"01", "02", "03", "04", "05", "06", "07", "08", "09", "deploy-all", "upgrade-v2",
          "diagnose-oracle", "verify-contracts"}
Modes == {"REPLACE", "ADD_NEW", "FULL"}

ASSUME DeploymentAssumption ==
    /\ MaxAddress \in Nat \ {0} /\ {MaxRuns, MaxFaults, Purse} \subseteq Nat
    /\ {CutSelector, AdminSelector, LoupeSelector} \subseteq Selectors
    /\ Explored \subseteq Facets
    /\ "DiamondCutFacet" \in Facets
    /\ \A n \in Facets : \A r \in 1 .. 2 : Code[n][r] \in Seq(Selectors)
    /\ {CoreFacets, TradingFacets, PricingFacets, SupportFacets, UpdatedFacets, NewFacets}
          \subseteq Seq(Facets)
    /\ \A list \in {InitialMarkets, NewMarkets, Tokens} : list \in Seq(ToSet(list))
    /\ Runs \subseteq [script : Names] \cup [script : {"upgrade-facet"}, facet : Facets, mode : Modes]

VARIABLES
    ds,          \* the routing table of the newest diamond
    contracts,   \* the facets deployed with it: contracts[a] is the one at address a
    impl,        \* the vault implementation the factory clones
    settings,    \* which parts of the configuration have been set
    accepted, funded, markets,
    release,     \* the release of the sources the scripts are run from
    file,        \* the manifest on disk
    script,      \* the script that runs
    runs, faults,
    torn         \* a script died after its cut and before it wrote the manifest

chain == <<ds, contracts, impl, settings, accepted, funded, markets>>
vars == <<chain, release, file, script, runs, faults, torn>>

\* address 0 and no selectors: nothing is recorded for the facet.
Unrecorded == [address |-> 0, selectors |-> {}]

\* loadDeployment of a network without a manifest.
NoManifest == [diamond |-> FALSE, facets |-> [n \in Facets |-> Unrecorded],
               markets |-> {}, upgrades |-> {}, verified |-> {}]

Idle == [name |-> "none", todo |-> <<>>, mem |-> NoManifest, cuts |-> <<>>,
         known |-> {}, sent |-> FALSE]
-----------------------------------------------------------------------------
(* The scripts.                                                            *)

Do(effect) == [do |-> effect]
DeployFacets(names, which) ==
    [i \in 1 .. Len(names) |-> [do |-> "facet", facet |-> names[i], which |-> which]]
\* batchDiamondCut: one transaction for all the facets deployed since the last.
SendCuts == <<Do("cut")>>
Set(what) == [do |-> "set", what |-> what]
Markets(symbols, how) ==
    [i \in 1 .. Len(symbols) |-> [do |-> "market", symbol |-> symbols[i], how |-> how]]
Each(effect) == [i \in 1 .. Len(Tokens) |-> [do |-> effect, token |-> Tokens[i]]]
Upgrades(names, mode) ==
    [i \in 1 .. Len(names) |-> [do |-> "upgrade", facet |-> names[i], mode |-> mode]]
Save == <<Do("save")>>
Verify == <<Do("verify")>>

Step01 == <<Do("diamond")>> \o DeployFacets(CoreFacets, "all") \o SendCuts \o Save
Step02 == DeployFacets(TradingFacets, "unrouted") \o SendCuts \o Save
Step03 == DeployFacets(PricingFacets, "unrouted") \o SendCuts \o Save
Step04 == DeployFacets(SupportFacets, "unrouted") \o SendCuts \o Save
Step05 == <<[do |-> "impl", impl |-> "UserVault"]>> \o Save
Step06 == <<Set("roles"), Set("fees"), Set("staleness")>>
            \o Markets(InitialMarkets, "or go on") \o Verify \o Save
Step07 == Each("accept") \o Save
Step08 == <<Do("check roles")>> \o Each("fund") \o Save
Step09 == <<Do("check roles")>> \o Markets(NewMarkets, "and list") \o Save

\* deploy-all.js keeps its own set of the selectors it has added.
DeployAllFacets(which) ==
    DeployFacets(TradingFacets, which) \o SendCuts \o DeployFacets(PricingFacets, which)
        \o SendCuts \o DeployFacets(SupportFacets, which) \o SendCuts
DeployAllSetup ==
    <<[do |-> "impl", impl |-> "UserVault"], Set("roles"), Set("fees"), Set("staleness")>>
        \o Markets(InitialMarkets, "or die")
DeployAll_ByChain ==
    <<Do("diamond")>> \o DeployFacets(CoreFacets, "all") \o SendCuts \o DeployAllFacets("unrouted")
        \o DeployAllSetup \o Verify \o Save
DeployAll ==
    <<Do("diamond")>> \o DeployFacets(CoreFacets, "all") \o SendCuts \o DeployAllFacets("unknown")
        \o DeployAllSetup \o Verify \o Save

UpgradeFacet(n, mode) == Upgrades(<<n>>, mode) \o SendCuts \o Save
UpgradeV2Setup == <<[do |-> "impl", impl |-> "TradingAccount"], Set("robustness")>>
UpgradeV2 ==
    Upgrades(UpdatedFacets, "V2") \o DeployFacets(NewFacets, "unrouted") \o SendCuts
        \o UpgradeV2Setup \o Save \o Verify
DiagnoseOracle == <<Do("post a test price")>>
VerifyContracts == <<Do("ask the explorer")>> \o Save

Program(run) ==
    CASE run.script = "01" -> Step01
      [] run.script = "02" -> Step02
      [] run.script = "03" -> Step03
      [] run.script = "04" -> Step04
      [] run.script = "05" -> Step05
      [] run.script = "06" -> Step06
      [] run.script = "07" -> Step07
      [] run.script = "08" -> Step08
      [] run.script = "09" -> Step09
      [] run.script = "deploy-all" -> DeployAll
      [] run.script = "upgrade-facet" -> UpgradeFacet(run.facet, run.mode)
      [] run.script = "upgrade-v2" -> UpgradeV2
      [] run.script = "diagnose-oracle" -> DiagnoseOracle
      [] run.script = "verify-contracts" -> VerifyContracts
-----------------------------------------------------------------------------
(* What the effects compute.                                               *)

Serves(s) == facetAddress(ds, s) # 0
NextAddress == Len(contracts) + 1
\* The selectors of a list that are in a set, and the others, in their order.
KeepIn(kept, s, set) == IF s \in set THEN Append(kept, s) ELSE kept
OnlyIn(selectors, set) == FoldLeft(LAMBDA kept, s : KeepIn(kept, s, set), <<>>, selectors)
NotIn(selectors, set) == OnlyIn(selectors, ToSet(selectors) \ set)
CutOf(action, a, selectors) ==
    IF selectors = <<>> THEN <<>>
    ELSE <<[action |-> action, facet |-> a, selectors |-> selectors]>>

\* getSelectors, of the release the script is run from.
SelectorsOf(n) == Code[n][release]

\* filterNewSelectors asks the diamond, dedup the script's own set.
Filtered(selectors, which) ==
    CASE which = "all"      -> selectors
      [] which = "unrouted" -> NotIn(selectors, {s \in Selectors : Serves(s)})
      [] which = "unknown"  -> NotIn(selectors, script.known)

recordFacet(mem, n, a, selectors) ==
    [mem EXCEPT !.facets[n] = [address |-> a, selectors |-> ToSet(selectors)]]
recordUpgrade(mem, n, a, mode) ==
    [recordFacet(mem, n, a, SelectorsOf(n)) EXCEPT !.upgrades = @ \cup {mode}]

\* Mutant: the selectors to remove are told from the new ones only.
SelectorDiff_RemovesShared(n) ==
    LET old == facetFunctionSelectors(ds, script.mem.facets[n].address)
        new == SelectorsOf(n)
    IN  [add     |-> NotIn(new, ToSet(old)),
         replace |-> OnlyIn(new, ToSet(old)),
         remove  |-> NotIn(old, ToSet(NotIn(new, ToSet(old))))]

\* What the diamond serves from the recorded address, against the new code.
SelectorDiff(n) ==
    LET old == facetFunctionSelectors(ds, script.mem.facets[n].address)
        new == SelectorsOf(n)
    IN  [add     |-> NotIn(new, ToSet(old)),
         replace |-> OnlyIn(new, ToSet(old)),
         remove  |-> NotIn(old, ToSet(new))]

UpgradeCuts(diff, a, mode) ==
    CASE mode = "REPLACE" -> CutOf("Replace", a, diff.replace) \o CutOf("Add", a, diff.add)
      [] mode = "ADD_NEW" -> CutOf("Add", a, diff.add)
      [] mode = "FULL"    -> CutOf("Remove", 0, diff.remove) \o CutOf("Replace", a, diff.replace)
                               \o CutOf("Add", a, diff.add)
      [] mode = "V2"      -> CutOf("Replace", a, diff.replace) \o CutOf("Add", a, diff.add)
                               \o CutOf("Remove", 0, diff.remove)

\* Nothing to do, or in ADD_NEW mode nothing to add: upgrade-facet.js returns.
NothingToUpgrade(diff, mode) ==
    \/ mode = "ADD_NEW" /\ diff.add = <<>>
    \/ mode # "V2" /\ diff.add = <<>> /\ diff.replace = <<>> /\ diff.remove = <<>>
-----------------------------------------------------------------------------
Init ==
    /\ ds = NoRoutes /\ contracts = <<>> /\ impl = "none"
    /\ settings = {} /\ accepted = {} /\ funded = [t \in ToSet(Tokens) |-> 0] /\ markets = <<>>
    /\ release = 1 /\ file = NoManifest /\ script = Idle
    /\ runs = 0 /\ faults = 0 /\ torn = FALSE

\* A script that needs the diamond's address throws when none is recorded.
\* The operator does not deploy a second diamond over one that is recorded.
Begin(run) ==
    /\ script = Idle /\ runs < MaxRuns
    /\ file.diamond <=> run.script \notin {"01", "deploy-all"}
    /\ run.script = "upgrade-v2" => release = 2
    /\ script' = [Idle EXCEPT !.name = run.script, !.todo = Program(run), !.mem = file]
    /\ runs' = runs + 1
    /\ UNCHANGED <<chain, release, file, faults, torn>>

NewRelease ==
    /\ script = Idle /\ release = 1
    /\ release' = 2
    /\ UNCHANGED <<chain, file, script, runs, faults, torn>>

At(effect) == script.todo # <<>> /\ Head(script.todo).do = effect
\* The script goes on to its next effect, or has come to its end.
After(s) == IF Len(s.todo) = 1 THEN Idle ELSE [s EXCEPT !.todo = Tail(@)]
Abort == script' = Idle
\* Ending without the manifest written, although the recorded diamond was cut.
Tears == torn' = (torn \/ (script.sent /\ file.diamond /\ script' = Idle))
Quiet == UNCHANGED <<release, file, runs, faults>> /\ Tears

NewDiamond ==
    /\ At("diamond")
    /\ ds' = diamondCut(NoRoutes, CutOf("Add", 1, <<CutSelector>>))
    /\ contracts' = <<"DiamondCutFacet">>
    /\ impl' = "none" /\ settings' = {} /\ accepted' = {} /\ markets' = <<>>
    /\ funded' = [t \in ToSet(Tokens) |-> 0]
    /\ script' = After([script EXCEPT
           !.mem = [recordFacet(@, "DiamondCutFacet", 1, <<CutSelector>>) EXCEPT !.diamond = TRUE],
           !.known = {CutSelector}])
    /\ Quiet

\* Mutant: the manifest lists the facet's selectors, the ones not cut included.
DeployFacet_RecordsAll ==
    /\ At("facet")
    /\ NextAddress \in Addresses
    /\ LET n == Head(script.todo).facet
           selectors == Filtered(SelectorsOf(n), Head(script.todo).which)
       IN  /\ contracts' = Append(contracts, n)
           /\ script' = After([script EXCEPT
                  !.mem = recordFacet(@, n, NextAddress, SelectorsOf(n)),
                  !.known = @ \cup ToSet(selectors),
                  !.cuts = @ \o CutOf("Add", NextAddress, selectors)])
    /\ UNCHANGED <<ds, impl, settings, accepted, funded, markets>> /\ Quiet

DeployFacet ==
    /\ At("facet")
    /\ NextAddress \in Addresses
    /\ LET n == Head(script.todo).facet
           selectors == Filtered(SelectorsOf(n), Head(script.todo).which)
       IN  /\ contracts' = Append(contracts, n)
           /\ script' = After([script EXCEPT
                  !.mem = recordFacet(@, n, NextAddress, selectors),
                  !.known = @ \cup ToSet(selectors),
                  !.cuts = @ \o CutOf("Add", NextAddress, selectors)])
    /\ UNCHANGED <<ds, impl, settings, accepted, funded, markets>> /\ Quiet

SelectAndDeploy ==
    /\ At("upgrade")
    /\ NextAddress \in Addresses
    /\ LET n == Head(script.todo).facet
           mode == Head(script.todo).mode
           diff == SelectorDiff(n)
       IN  /\ contracts' = Append(contracts, n)
           /\ IF NothingToUpgrade(diff, mode) THEN Abort
              ELSE script' = After([script EXCEPT
                      !.mem = recordUpgrade(@, n, NextAddress, mode),
                      !.cuts = @ \o UpgradeCuts(diff, NextAddress, mode)])
    /\ UNCHANGED <<ds, impl, settings, accepted, funded, markets>> /\ Quiet

SendCut ==
    /\ At("cut")
    /\ LET cut == diamondCut(ds, script.cuts)
       IN  IF cut.ok
           THEN ds' = cut /\ script' = After([script EXCEPT !.cuts = <<>>, !.sent = @ \/ script.cuts # <<>>])
           ELSE ds' = ds /\ Abort
    /\ UNCHANGED <<contracts, impl, settings, accepted, funded, markets>> /\ Quiet

SetImplementation ==
    /\ At("impl")
    /\ IF Serves(AdminSelector)
       THEN impl' = Head(script.todo).impl /\ script' = After(script)
       ELSE impl' = impl /\ Abort
    /\ UNCHANGED <<ds, contracts, settings, accepted, funded, markets>> /\ Quiet

Configure ==
    /\ At("set")
    /\ IF Serves(AdminSelector)
       THEN settings' = settings \cup {Head(script.todo).what} /\ script' = After(script)
       ELSE settings' = settings /\ Abort
    /\ UNCHANGED <<ds, contracts, impl, accepted, funded, markets>> /\ Quiet

CheckRoles ==
    /\ At("check roles")
    /\ IF Serves(AdminSelector) /\ "roles" \in settings THEN script' = After(script) ELSE Abort
    /\ UNCHANGED chain /\ Quiet

\* verifyDiamondState only reads, but throws without a loupe to ask.
VerifyDiamondState ==
    /\ At("verify")
    /\ IF Serves(LoupeSelector) THEN script' = After(script) ELSE Abort
    /\ UNCHANGED chain /\ Quiet
-----------------------------------------------------------------------------
(* Effects on collateral and markets.  Where the script catches its        *)
(* error the effect may have failed, or have happened unheard.             *)

\* done: the effect is seen; otherwise a fault hid it or kept it away.
Heard == faults' = faults
Missed == faults < MaxFaults /\ faults' = faults + 1
Rest == UNCHANGED <<release, file, runs>> /\ Tears

AcceptCollateral ==
    /\ At("accept")
    /\ LET t == Head(script.todo).token
       IN  \/ t \in accepted /\ UNCHANGED accepted /\ Heard
           \/ t \notin accepted /\ accepted' = accepted \cup {t} /\ (Heard \/ Missed)
           \/ t \notin accepted /\ UNCHANGED accepted /\ Missed
    /\ script' = After(script)
    /\ UNCHANGED <<ds, contracts, impl, settings, funded, markets>> /\ Rest

\* A token that is not accepted, or that the funder is short of, is skipped.
FundVault ==
    /\ At("fund")
    /\ LET t == Head(script.todo).token
           can == t \in accepted /\ funded[t] < Purse
       IN  \/ ~can /\ UNCHANGED funded /\ Heard
           \/ can /\ funded' = [funded EXCEPT ![t] = @ + 1] /\ (Heard \/ Missed)
           \/ can /\ UNCHANGED funded /\ Missed
    /\ script' = After(script)
    /\ UNCHANGED <<ds, contracts, impl, settings, accepted, markets>> /\ Rest

NewMarket(symbol) == [symbol |-> symbol, price |-> FALSE, pool |-> FALSE]

\* The market's id is its place; 09-add-market.js goes on to price and pool.
OnToPrice(id) ==
    [script EXCEPT !.todo = <<[do |-> "price", id |-> id, symbol |-> Head(@).symbol]>> \o Tail(@)]

CreateMarket ==
    /\ At("market")
    /\ LET m == Head(script.todo)
           created == Append(markets, NewMarket(m.symbol))
       IN  \/ /\ markets' = created /\ Heard
              /\ script' = IF m.how = "and list" THEN OnToPrice(Len(created)) ELSE After(script)
           \/ /\ markets' \in {markets, created} /\ Missed
              /\ IF m.how = "or die" THEN Abort ELSE script' = After(script)
    /\ UNCHANGED <<ds, contracts, impl, settings, accepted, funded>> /\ Rest

OnToPool == [script EXCEPT !.todo = <<[Head(@) EXCEPT !.do = "pool"]>> \o Tail(@)]

\* Mutant: a price that could not be posted does not keep the pool away.
PostPrice_GoesOn ==
    /\ At("price")
    /\ LET priced == [markets EXCEPT ![Head(script.todo).id].price = TRUE]
       IN  /\ \/ markets' = priced /\ Heard
              \/ markets' \in {markets, priced} /\ Missed
           /\ script' = OnToPool
    /\ UNCHANGED <<ds, contracts, impl, settings, accepted, funded>> /\ Rest

PostPrice ==
    /\ At("price")
    /\ LET priced == [markets EXCEPT ![Head(script.todo).id].price = TRUE]
       IN  \/ markets' = priced /\ Heard /\ script' = OnToPool
           \/ markets' \in {markets, priced} /\ Missed /\ script' = After(script)
    /\ UNCHANGED <<ds, contracts, impl, settings, accepted, funded>> /\ Rest

\* initializePool does not ask for a posted price.
InitializePool ==
    /\ At("pool")
    /\ LET m == Head(script.todo)
           pooled == [markets EXCEPT ![m.id].pool = TRUE]
       IN  \/ /\ markets' = pooled /\ Heard
              /\ script' = After([script EXCEPT !.mem.markets = @ \cup {m.id}])
           \/ markets' \in {markets, pooled} /\ Missed /\ script' = After(script)
    /\ UNCHANGED <<ds, contracts, impl, settings, accepted, funded>> /\ Rest

\* diagnose-oracle.js ends with a live transaction: a fixed price for the first market.
PostTestPrice ==
    /\ At("post a test price")
    /\ LET allowed == markets # <<>> /\ "roles" \in settings /\ Serves(AdminSelector)
       IN  \/ allowed /\ markets' = [markets EXCEPT ![1].price = TRUE] /\ (Heard \/ Missed)
           \/ ~allowed /\ UNCHANGED markets /\ Heard
           \/ allowed /\ UNCHANGED markets /\ Missed
    /\ script' = After(script)
    /\ UNCHANGED <<ds, contracts, impl, settings, accepted, funded>> /\ Rest

\* verify-contracts.js: the explorer is asked about the recorded facets it knows
\* by name, and the answers are noted.
AskExplorer ==
    /\ At("ask the explorer")
    /\ LET recorded == {n \in Explored : script.mem.facets[n].address # 0}
           noted(names) == script' = After([script EXCEPT
               !.mem.verified = {script.mem.facets[n].address : n \in names}])
       IN  \/ noted(recorded) /\ Heard
           \/ \E n \in recorded : noted(recorded \ {n}) /\ Missed
    /\ UNCHANGED chain /\ Rest

SaveDeployment ==
    /\ At("save")
    /\ file' = script.mem
    /\ script' = After([script EXCEPT !.sent = FALSE])
    /\ UNCHANGED <<chain, release, runs, faults, torn>>

\* The process dies, or a call that is not caught throws.
Crash ==
    /\ script # Idle /\ faults < MaxFaults
    /\ script' = Idle /\ faults' = faults + 1
    /\ UNCHANGED chain /\ Rest

Advance ==
    \/ NewDiamond \/ DeployFacet \/ SelectAndDeploy \/ SendCut \/ SetImplementation \/ Configure
    \/ CheckRoles \/ VerifyDiamondState \/ AskExplorer \/ AcceptCollateral \/ FundVault \/ CreateMarket \/ PostPrice \/ InitializePool
    \/ PostTestPrice \/ SaveDeployment

Next ==
    \/ \E run \in Runs : Begin(run)
    \/ NewRelease
    \/ Advance
    \/ Crash

Spec == Init /\ [][Next]_vars
-----------------------------------------------------------------------------
(* Properties.                                                             *)

\* The routing the proxy uses and the lists the loupe answers with, which the
\* upgrade scripts take their diff from, tell the same story after every cut:
\* removeFunction's swap-and-pop (LibDiamond) keeps both indices in step.
LoupeConsistent == SelectorsIndexed(ds) /\ FacetsIndexed(ds)

\* Wherever a script stops, and whatever cut is refused, a function that is in
\* service and in the release the script is run from stays in service: removals
\* and replacements of one upgrade are one transaction.
ServiceKept ==
    [][file.diamond => \A n \in Facets : \A s \in ToSet(SelectorsOf(n)) :
          facetAddress(ds, s) # 0 => facetAddress(ds', s) # 0]_vars

\* When no script runs, none died between its cut and its save, and ADD_NEW
\* (which records functions that stay at the old address) was never used, what
\* the manifest records of a facet is what the diamond serves from its address.
ManifestTrue ==
    (script = Idle /\ ~torn /\ file.diamond /\ "ADD_NEW" \notin file.upgrades) =>
        \A n \in Facets :
            ToSet(facetFunctionSelectors(ds, file.facets[n].address)) \subseteq file.facets[n].selectors
            /\ \A s \in file.facets[n].selectors : facetAddress(ds, s) = file.facets[n].address

\* A pool is opened only for a market whose price has been posted (initializePool
\* does not ask), and the manifest lists only markets that have both.
PoolHasPrice ==
    /\ \A id \in DOMAIN markets : markets[id].pool => markets[id].price
    /\ \A id \in file.markets : id \in DOMAIN markets /\ markets[id].pool

DeployedFacets ==
    ToSet(CoreFacets) \cup ToSet(TradingFacets) \cup ToSet(PricingFacets) \cup ToSet(SupportFacets)
Complete ==
    /\ file.diamond /\ impl = "UserVault" /\ settings = {"roles", "fees", "staleness"}
    /\ Len(markets) = Len(InitialMarkets)
    /\ \A n \in DeployedFacets : \A s \in ToSet(SelectorsOf(n)) : Serves(s)

\* When deploy-all.js ends without a call failing or the process dying on the
\* way, every function is in service, the protocol is configured and the diamond
\* is recorded, whichever attempts died before it and left a diamond behind: its
\* own set of selectors keeps the cut from being refused for the shared one.
DeployAllCompletes ==
    [][script.name = "deploy-all" /\ script' = Idle /\ faults' = faults => Complete']_vars

\* Step 03: "The filterNewSelectors() call ensures no duplicate selector is
\* added." (03-deploy-pricing-facets.js:18)
NoDuplicateAdded ==
    \A i, j \in DOMAIN script.cuts : i # j /\ script.name = "03" =>
        ToSet(script.cuts[i].selectors) \cap ToSet(script.cuts[j].selectors) = {}
=============================================================================
