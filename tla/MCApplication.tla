--------------------------- MODULE MCApplication ---------------------------
EXTENDS Application

MCAddresses == {"v1", "v2", "u"}
MCBalances == [a \in {"v1", "u"} |-> 6]
MCNames == [a \in {"v1", "v2"} |-> IF a = "v1" THEN "one" ELSE "two"]
MCBls == [a \in {"v1", "v2"} |-> IF a = "v1" THEN "bls1" ELSE "bls2"]
MCGen == [a \in {"v1", "v2"} |-> IF a = "v1" THEN "gen1" ELSE "gen2"]
Equal(S, threshold) == [weights |-> [a \in S |-> 1], threshold |-> threshold]
MCSnapshot == Equal({"v1", "v2"}, 2)
MCBrackets == <<2, 1>>

Signed(sender, nonce, fee, keys) ==
    [sender |-> sender, nonce |-> nonce, fee |-> fee, signatures |-> keys]
Transfer(to, amount) == [command |-> "transfer", recipient |-> to, amount |-> amount]
Register(name, bls) ==
    [command |-> "registerAuthority", name |-> name, blsKey |-> bls, generatorKey |-> "gen3",
     popValid |-> TRUE]
Update(S, threshold, nonce, signers) ==
    [command |-> "updateAuthority", weights |-> [a \in S |-> 1], threshold |-> threshold,
     updateNonce |-> nonce, signers |-> signers]
NewKey == [command |-> "updateGeneratorKey", generatorKey |-> "gen4"]
Multi(mandatory, optional, n, signers) ==
    [command |-> "registerMultisignature", mandatoryKeys |-> mandatory, optionalKeys |-> optional,
     numberOfSignatures |-> n, keySignatures |-> signers]

MCTransactions ==
    {Signed("v1", n, 3, {"v1"}) @@ c :
        n \in 0 .. 1,
        c \in {Transfer("v2", 1), Transfer("u", 5), NewKey,
               Update({"v1", "v2", "u"}, 2, 0, {"v1"})}}
    \cup {Signed("v1", n, 1, {"v1"}) @@ Transfer("v2", 1) : n \in 0 .. 1}
    \cup {Signed("u", n, 2, {"u"}) @@ c :
            n \in 0 .. 1,
            c \in {Register("three", "bls1"), Register("three", "bls3"),
                   Update({"v1", "v2"}, 1, 0, {"v1", "v2"}),
                   Multi({"v1"}, {"v2"}, 1, {"v1", "v2"})}}
    \cup {Signed("u", 1, 2, {"v1"}) @@ Transfer("v1", 2),
          Signed("v2", 0, 0, {"v2"}) @@ Transfer("u", 0)}
    \* Updates that keep, shorten and lengthen the rounds, one of them to a single authority.
    \cup {Signed("v1", n, 1, {"v1"}) @@ Update(new[1], new[2], n, {"v1", "v2"}) :
            n \in 0 .. 1,
            new \in {<<{"v1", "v2"}, 1>>, <<{"v1"}, 1>>, <<{"v1", "v2", "u"}, 2>>}}
============================================================================
