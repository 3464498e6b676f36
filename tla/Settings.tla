------------------------------ MODULE Settings ------------------------------
(***************************************************************************)
(* The settings of a run of the proxy: run() of cmd/main.go merges command *)
(* line flags with the YAML file of internal/config.  Pure operators.      *)
(*                                                                         *)
(* A flag is {v} when it is given with value v and {} when it is not; the  *)
(* text of an address, a URL or a duration is a string, "" when it is      *)
(* empty.  Settings that only are passed on (listen, config, debug) follow *)
(* the rule of directory and are left out.                                 *)
(***************************************************************************)
EXTENDS Integers, ChainRegistry

CONSTANT Durations   \* the texts time.ParseDuration accepts, with their values

ASSUME DurationsOK == \A t \in DOMAIN Durations : Durations[t] \in Int

\* config.ProxyConfig, as yaml leaves the fields that a file does not mention;
\* readable is FALSE for a file that config.Load rejects.
EmptyFile == [readable |-> TRUE, mode |-> "", directory |-> "", rotate |-> "",
              retries |-> 0, rpc |-> [t \in {} |-> ""], disabled |-> {}]

\* No flag is given.
NoFlags == [auto |-> {}, direct |-> {}, directory |-> {}, rotate |-> {},
            retries |-> {}, rpc |-> [t \in TLDs |-> ""],
            no |-> [t \in TLDs |-> {}], relays |-> <<"", "", "">>]

Changed(flag) == flag # {}
Value(flag, default) == IF Changed(flag) THEN CHOOSE v \in flag : TRUE ELSE default

-----------------------------------------------------------------------------
(* The merge, for flags c and file f (EmptyFile when there is none).       *)

\* A text of the file counts if its flag is not given.
Text(flag, inFile, default) ==
  IF ~Changed(flag) /\ inFile # "" THEN inFile ELSE Value(flag, default)

retriesOf(c, f) ==
  IF ~Changed(c.retries) /\ f.retries > 0 THEN f.retries ELSE Value(c.retries, 3)

\* Mutant: only the flag of the file's own mode keeps the file from deciding.
FileDecidesLoosely(c, f) == ~(IF f.mode = "auto" THEN Changed(c.auto)
                                                 ELSE Changed(c.direct))

\* The file's mode counts if neither of the two mode flags is given.
FileDecides(c, f) == ~Changed(c.auto) /\ ~Changed(c.direct)

autoOf(c, f) ==
  Value(c.auto, FALSE) \/ (FileDecides(c, f) /\ f.mode = "auto")
directModeOf(c, f) ==
  Value(c.direct, FALSE) \/ (FileDecides(c, f) /\ f.mode = "direct")

\* The overrides of the file, then the flags that are not empty.  c.rpc[t] is
\* the flag for t: one of --eth-rpc, --sol-rpc, --bnb-rpc, --btc-rpc, or
\* --polygon-rpc for each of the Unstoppable Domains.
rpcOverridesOf(c, f) ==
  [t \in TLDs |-> IF c.rpc[t] # "" THEN c.rpc[t]
                  ELSE IF t \in DOMAIN f.rpc THEN f.rpc[t] ELSE ""]

\* The file's list and the --no-<tld> flags that are true.
disabledOf(c, f) == f.disabled \union {t \in TLDs : Value(c.no[t], FALSE)}

Merged(c, f) ==
  [auto |-> autoOf(c, f), direct |-> directModeOf(c, f),
   directory |-> Text(c.directory, f.directory, "default"),
   rotate |-> Text(c.rotate, f.rotate, ""),
   retries |-> retriesOf(c, f),
   rpc |-> rpcOverridesOf(c, f), disabled |-> disabledOf(c, f),
   relays |-> c.relays]

-----------------------------------------------------------------------------
(* The checks of run() on merged settings s.                               *)

Interval(s) == IF s.rotate \in DOMAIN Durations THEN Durations[s.rotate] ELSE 0

\* Mutant: --rotate is checked against --direct only.
ConsistentLoosely(s) ==
  /\ s.rotate = "" \/ s.rotate \in DOMAIN Durations
  /\ ~(Interval(s) > 0 /\ s.direct)

\* A rotation interval parses, and a positive one needs auto mode.
Consistent(s) ==
  /\ s.rotate = "" \/ s.rotate \in DOMAIN Durations
  /\ ~(Interval(s) > 0 /\ ~s.auto)
  /\ ~(Interval(s) > 0 /\ s.direct)

\* parseRelay: an address and a public key of the right length.
RelayParses(r) == r = "good"
=============================================================================
