----------------------------- MODULE MCResolver -----------------------------
(***************************************************************************)
(* A zone z with the names z, a, b, w and x, the zone y inside it, and the *)
(* name o in no zone; s is a spelled without its final dot.  w is matched  *)
(* by a wildcard, x by nothing.                                            *)
(***************************************************************************)
EXTENDS Resolver, TLC

CONSTANTS z, a, b, w, x, y, o, s, lz, la, lb, lw, ly

AllNames == {z, a, b, w, x, y, o, s}
AllLabels == {lz, la, lb, lw, ly}

Suffixes == [n \in AllNames |-> CASE n \in {z, a, b, w, x} -> {z}
                                  [] n = y -> {z, y}
                                  [] OTHER -> {}]
Dotted == [n \in AllNames |-> IF n = s THEN a ELSE n]
Locations ==
    (z :> [n \in AllNames |-> CASE n = z -> lz [] n = a -> la [] n = b -> lb
                                [] n = w -> lw [] OTHER -> Nil])
 @@ (y :> [n \in AllNames |-> IF n = y THEN ly ELSE Nil])

\* b is below a; the parent of w does not exist.  An older zone object, which a
\* record may still hold, does not know a.
Parents == (lz :> Nil) @@ (la :> Top) @@ (lb :> la) @@ (lw :> Nil) @@ (ly :> Nil)
ZoneObjects == {Parents, [Parents EXCEPT ![lb] = Nil]}

Empty == [cname |-> Nil, aname |-> Nil, ns |-> {}, a |-> "none", caa |-> FALSE, txt |-> FALSE]
Alias(n) == [Empty EXCEPT !.cname = n]
AName(n) == [Empty EXCEPT !.aname = n]
Address == [Empty EXCEPT !.a = "some"]
Text == [Empty EXCEPT !.txt = TRUE]
Hidden == [Empty EXCEPT !.a = "hidden", !.aname = o]
Servers == [Empty EXCEPT !.ns = {b, o, Nil}, !.txt = TRUE]
Hostless == [Empty EXCEPT !.ns = {Nil}]
Authority == [Empty EXCEPT !.caa = TRUE]

\* Chains of up to three aliases, loops of one to three, and ways out of the zone.
ChainShapes ==
    (lz :> {Text}) @@ (ly :> {Empty})
 @@ (la :> {Alias(b), Alias(w), Text})
 @@ (lb :> {Alias(w), Alias(s), Alias(x), Servers, Text})
 @@ (lw :> {Alias(a), Alias(w), Alias(y), Alias(o), Alias(z), Text})

\* Every branch of the type switch, ANAMEs within, between and out of the zones.
AnswerShapes ==
    (lz :> {AName(y), Servers, Authority})
 @@ (ly :> {AName(z), Hidden, Address})
 @@ (la :> {AName(b), Alias(z), Authority})
 @@ (lb :> {AName(o), AName(x), Servers})
 @@ (lw :> {Alias(b)})

\* Ways up to a CAA at the apex, through a parent or past a missing one, and a
\* delegation to nobody.
ParentShapes ==
    (lz :> {Text, Authority}) @@ (ly :> {Empty})
 @@ (la :> {Text, Authority}) @@ (lb :> {Text, Hostless}) @@ (lw :> {Text})

-----------------------------------------------------------------------------
(* The families in one specification.  The chains are asked for one type,   *)
(* with DNSSEC, and zones and records change under the request; the type    *)
(* switch is gone through, for all questions, with everything at rest.  A   *)
(* request without DNSSEC is as one to an unsigned zone, DNSKEY apart.      *)

AllShapes == [l \in AllLabels |-> ChainShapes[l] \cup AnswerShapes[l] \cup ParentShapes[l]]
InChains == \A l \in Labels : db[l] \in ChainShapes[l]
InAnswers == /\ z \in zones
             /\ \E shapes \in {AnswerShapes, ParentShapes} : \A l \in Labels : db[l] \in shapes[l]

AskAChain == InChains /\ \E n \in {a, b} : HandleRequest(n, "TXT", TRUE)
AskAll == InAnswers /\ \E n \in Names \ {s}, t \in QTypes, d \in BOOLEAN :
              (d \/ t = "DNSKEY") /\ HandleRequest(n, t, d)
ChangeZones == InChains /\ SwapZones /\ zones' # zones
ChangeRecord(l) == InChains /\ WriteRecord(l) /\ db'[l] \in ChainShapes[l] \ {db[l]}

Contents(shapes) ==
    {(lz :> rz) @@ (la :> ra) @@ (lb :> rb) @@ (lw :> rw) @@ (ly :> ry) :
        rz \in shapes[lz], ra \in shapes[la], rb \in shapes[lb], rw \in shapes[lw], ry \in shapes[ly]}

MCInit == /\ db \in UNION {Contents(shapes) : shapes \in {ChainShapes, AnswerShapes, ParentShapes}}
          /\ Init /\ (InChains \/ InAnswers)
MCNext == \/ AskAChain \/ AskAll \/ Step \/ ChangeZones
          \/ \E l \in Labels : ChangeRecord(l)
MCSpec == MCInit /\ [][MCNext]_vars /\ WF_vars(Step)
=============================================================================
