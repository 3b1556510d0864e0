----------------------------- MODULE MCPlatform -----------------------------
(* The three writers of the platform database that have a protocol of their *)
(* own, side by side: they share no row, so each behaviour moves one.       *)
EXTENDS ReaderAccounts, Provisioning, Vouchers, TLC

VARIABLE shown  \* "readers", "sites" or "offers"

Interchangeable == Permutations(Request)

Terms(l, r) == [likes |-> l, rivals |-> r]

\* The seed directories of two releases, and of one whose matrix names a type
\* that it does not define.
Old == [types |-> {"stay"}, policy |-> "stay" :> Terms({}, {}),
        formats |-> {"guide"}, decays |-> {"guide"}]
New == [types |-> {"stay", "spa"}, policy |-> "stay" :> Terms({"spa"}, {}),
        formats |-> {"guide"}, decays |-> {"guide"}]
Broken == [Old EXCEPT !.policy = "stay" :> Terms({"spa"}, {})]

MCSeeds == {Old, New, Broken}
MCPolicy == {Terms({}, {}), Terms({"spa"}, {})}

PlatformInit ==
    /\ AccountInit /\ ProvisioningInit /\ VouchersInit
    /\ shown \in {"readers", "sites", "offers"}
    /\ shown # "offers" => cap = MaxCap

PlatformNext ==
    \/ shown = "readers" /\ AccountNext /\ UNCHANGED <<provisioningVars, voucherVars, shown>>
    \/ shown = "sites" /\ ProvisioningNext /\ UNCHANGED <<accountVars, voucherVars, shown>>
    \/ shown = "offers" /\ VouchersNext /\ UNCHANGED <<accountVars, provisioningVars, shown>>

PlatformSpec ==
    PlatformInit /\ [][PlatformNext]_<<accountVars, provisioningVars, voucherVars, shown>>
=============================================================================
