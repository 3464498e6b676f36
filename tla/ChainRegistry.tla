---------------------------- MODULE ChainRegistry ---------------------------
(***************************************************************************)
(* The registry of internal/resolver: the chains that the init functions   *)
(* of ens.go, sns.go, bns.go, spaceid.go and unstoppable.go register.      *)
(***************************************************************************)
EXTENDS Sequences, FiniteSets

CONSTANTS
  TLDs,         \* the registered chains
  Kind,         \* the resolver each one has
  DefaultRPCs   \* ChainConfig.DefaultRPCs of each TLD

\* ENS, Space ID, SNS, BNS and the Unstoppable Domains.
Kinds == {"ens", "sid", "sns", "bns", "ud"}

\* TLDs whose resolvers share a client, and those whose Close closes their own.
SharedTLDs   == {t \in TLDs : Kind[t] = "ud"}
ClosableTLDs == {t \in TLDs : Kind[t] \in {"ens", "sid"}}

ASSUME ChainsOK == IsFiniteSet(TLDs) /\ Kind \in [TLDs -> Kinds]
ASSUME RPCsOK == /\ DefaultRPCs \in [TLDs -> Seq(STRING)]
                 /\ \A t \in TLDs : DefaultRPCs[t] # <<>>
                 /\ \A t, u \in SharedTLDs : DefaultRPCs[t] = DefaultRPCs[u]
=============================================================================
