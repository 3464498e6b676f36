------------------------------ MODULE MCStartup -----------------------------
(* The small instances of Startup that TLC checks.                         *)
EXTENDS Startup

MCKind == (".eth" :> "ens") @@ (".bnb" :> "sid") @@ (".sol" :> "sns")
            @@ (".btc" :> "bns") @@ (".crypto" :> "ud") @@ (".x" :> "ud")
MCTLDs == DOMAIN MCKind
MCDefaultRPCs == [t \in MCTLDs |->
  CASE t \in {".crypto", ".x"} -> <<"polygon1", "polygon2">>
    [] t = ".eth" -> <<"eth1", "eth2">> [] OTHER -> <<"only">>]

\* Texts of durations: none, too short, regular, and negative; "soon" is none.
MCDurations == ("0s" :> 0) @@ ("1ns" :> 1) @@ ("10" :> 10) @@ ("17" :> 17)
                 @@ ("-5" :> -5)

\* Only the chains of set on.
Without(on) == [t \in MCTLDs |-> IF t \in on THEN {} ELSE {TRUE}]

\* Flags and files that differ in mode, rotation and relays, with one chain.
ModeFlags ==
  {[NoFlags EXCEPT !.auto = a, !.direct = d, !.rotate = r, !.relays = l,
                   !.no = Without({".crypto"})] :
     a \in {{}, {TRUE}, {FALSE}}, d \in {{}, {TRUE}, {FALSE}},
     r \in {{}, {"10"}}, l \in {<<"", "", "">>, <<"good", "good", "good">>}}
ModeFiles ==
  {[EmptyFile EXCEPT !.readable = FALSE]} \union
  {[EmptyFile EXCEPT !.mode = m, !.rotate = r] :
     m \in {"", "auto", "direct", "typo"}, r \in {"", "10"}}
ModeInputs == {[cli |-> c, file |-> f] : c \in ModeFlags, f \in ModeFiles}

\* Every rotation interval, and no retries.
RotationInputs ==
  {[cli |-> [NoFlags EXCEPT !.auto = {TRUE}, !.rotate = {r}, !.retries = n,
                            !.no = Without({".crypto"})],
    file |-> EmptyFile] :
     r \in DOMAIN MCDurations \union {"soon", ""}, n \in {{}, {0}}}

\* Overrides per TLD in the file, or --polygon-rpc, with three chains.
AutoFlags(on) == [NoFlags EXCEPT !.auto = {TRUE}, !.no = Without(on)]
FileRPCs == {[t \in {} |-> ""], ".crypto" :> "mine", (".crypto" :> "mine") @@ (".x" :> "other"),
             ".eth" :> "myeth"}
ChainInputs ==
  {[cli |-> AutoFlags({".eth", ".crypto", ".x"}),
    file |-> [EmptyFile EXCEPT !.rpc = o]] : o \in FileRPCs}
  \union
  {[cli |-> [AutoFlags({".eth", ".crypto", ".x"}) EXCEPT !.rpc =
       [t \in MCTLDs |-> IF t \in {".crypto", ".x"} THEN "flag" ELSE ""]],
    file |-> [EmptyFile EXCEPT !.rpc = ".crypto" :> "mine", !.disabled = {".eth"}]]}

\* A chain of each kind, for the records.
RecordInputs == {[cli |-> AutoFlags({".sol", ".eth", ".btc", ".x"}), file |-> EmptyFile]}

MCInputs == ModeInputs \union RotationInputs \union ChainInputs \union RecordInputs

\* Records: prefixes, right and wrong digits, and padding around them.
Pre  == HexPrefixes \union {<<"0", "X", "0", "x">>, <<"0", "x", "0", "x">>}
Body == {<<"1", "a">>, <<"1">>, <<"1", "z">>, <<"a", "1", "0">>}
Lead == {<<>>, <<Blank>>}
Tail_ == {<<>>, <<NUL>>, <<NUL, NUL>>, <<Blank>>, <<Blank, NUL>>, <<NUL, Blank>>}
Texts == {p \o b : p \in Pre, b \in Body} \union {<<>>}
Payloads == {l \o p \o b \o t : l \in Lead, p \in Pre, b \in Body, t \in Tail_}
              \union {<<c>> \o t : c \in {"z", Blank, NUL}, t \in {<<>>, <<NUL>>, <<NUL, NUL>>}}
              \union {<<>>}
Zone(n, b) == [name |-> n, txt |-> b]
Zones == {<<>>, <<Zone("www", <<"1", "a">>)>>} \union
         {<<Zone("www", <<"1", "1">>), Zone("_adnl", b), Zone("_adnl", c)>> :
            b \in Body, c \in Body}
MCRecords == [t \in MCTLDs |->
  CASE t \in {".eth", ".bnb"} -> Texts [] t = ".sol" -> Payloads
    [] t = ".btc" -> Zones [] t = ".x" -> {<<>>} \union {<<b>> : b \in Body}
    [] OTHER -> {}]

\* Only the remainder counts: each one of the longest jitterRange, with both
\* signs, and the ends of the range.
MCRandoms == {MinInt, MaxInt} \union (-10..10)
=============================================================================
