------------------------------ MODULE Resolver ------------------------------
(***************************************************************************)
(* One request in DnsRequestHandler.HandleRequest: the zone lookup, the    *)
(* CNAME loop, delegation, ANAME and CAA resolution, and the DNSSEC tail   *)
(* (src/handler/handler.go, dnssec.go).  Between any two looks at shared   *)
(* state the zone list h.Zones may be swapped by the updater goroutine, a  *)
(* record may be reloaded with other contents, and a load may return nil   *)
(* (ZoneData says when).  The zone itself is a pointer taken once; FindCAA *)
(* takes another, that of the record, which the record may have kept from  *)
(* an earlier load of the zone.                                            *)
(*                                                                         *)
(* Sections are sets of RRs [owner, type, data]: Sign goes through a Go    *)
(* map, so the order of a signed section is arbitrary anyway.  The types   *)
(* are grouped by the branch that answers them: "A" stands for A and AAAA, *)
(* "TXT" for TXT, MX, SRV, PTR and TLSA.                                   *)
(***************************************************************************)
EXTENDS Naturals, FiniteSets

CONSTANTS
    Names,         \* names a question or a record may mention
    ZoneNames,     \* the zones redis may list; their apexes are names
    Enclosing,     \* Enclosing[n]: the zones whose name is a suffix of n
    Fqdn,          \* dns.Fqdn: the dotted spelling of a name
    Labels,        \* the keys of the zone hashes
    Location,      \* Location[z][n]: what zone.FindLocation(n) returns
    Ups,           \* one function up for every zone object a record may hold:
                   \* up[l] is the location FindCAA looks at after l
    Shapes,        \* Shapes[l]: the contents record l may have
    QTypes,        \* the question types asked
    MaxLoop,       \* 10 in the code
    MaxChanges,    \* bound on writes and zone list swaps
    Fails,         \* may redis and the upstream fail?
    Nil, Top

\* Nil as a name server is one with an empty host.
Record == [cname: Names \cup {Nil}, aname: Names \cup {Nil}, ns: SUBSET (Names \cup {Nil}),
           a: {"none", "hidden", "some"}, caa: BOOLEAN, txt: BOOLEAN]

ASSUME NamesAssumption ==
    /\ ZoneNames \subseteq Names
    /\ Fqdn \in [Names -> Names]
    /\ Nil \notin Names \cup Labels /\ Top \notin Labels \cup {Nil}
ASSUME EnclosingAssumption ==
    /\ Enclosing \in [Names -> SUBSET ZoneNames]
    /\ \A n \in Names : \A found \in SUBSET Enclosing[n] :
           found # {} => \E z \in found : found \subseteq Enclosing[z]
    /\ \A n \in Names : Enclosing[n] # {} => Fqdn[n] = n    \* zone names are dotted
ASSUME LocationAssumption ==
    /\ Location \in [ZoneNames -> [Names -> Labels \cup {Nil}]]
    /\ \A z \in ZoneNames : Location[z][z] \in Labels
    /\ \A l \in Labels : Shapes[l] \subseteq Record
ASSUME UpsAssumption == Ups # {} /\ Ups \subseteq [Labels -> Labels \cup {Nil, Top}]
ASSUME BoundAssumption == MaxLoop \in Nat /\ MaxChanges \in Nat /\ Fails \in BOOLEAN

VARIABLES
    zones,         \* h.Zones
    db,            \* the contents LoadLocation finds
    swaps, writes, \* how often each changed while the request was handled
    pc, qname, qtype, do,
    zoneName, flat, dnssec,            \* the zone pointer and its config
    loopCount, currentQName,
    target,        \* currentQName in FindANAME, currentLocation in FindCAA
    up,            \* record.Zone in FindCAA, as far as the way up goes
    answer, authority, additional, res,
    failed         \* history: a load or an upstream query has failed

environment == <<zones, db, swaps, writes>>
question    == <<qname, qtype, do>>
zoneVars    == <<zoneName, flat, dnssec>>
cursor      == <<loopCount, currentQName, target, up>>
sections    == <<answer, authority, additional, res>>
vars == <<environment, pc, question, zoneVars, cursor, sections, failed>>

Rcodes == {"Success", "NameError", "ServFail", "NotAuth", "NotImplemented"}
RRTypes == {"A", "CNAME", "NS", "TXT", "CAA", "SOA", "DNSKEY", "NSEC", "RRSIG"}
RRs == [owner: Names, type: RRTypes, data: Names \cup Labels \cup RRTypes \cup {Nil}]
RR(n, t, d) == [owner |-> n, type |-> t, data |-> d]

\* Every variable keeps its type; loopCount never exceeds the cap by more than
\* the one pass that notices it (HandleRequest and FindANAME).
TypeOK ==
    /\ zones \subseteq ZoneNames
    /\ db \in [Labels -> Record]
    /\ swaps \in Nat /\ writes \in Nat /\ swaps + writes <= MaxChanges
    /\ pc \in {"idle", "zone", "loop", "load", "aname", "caa", "done"}
    /\ qname \in Names \cup {Nil} /\ qtype \in QTypes \cup {Nil} /\ do \in BOOLEAN
    /\ zoneName \in ZoneNames \cup {Nil} /\ flat \in BOOLEAN /\ dnssec \in BOOLEAN
    /\ loopCount \in 0 .. MaxLoop + 1
    /\ currentQName \in Names \cup {Nil} /\ target \in Names \cup Labels \cup {Nil}
    /\ up \in Ups \cup {Nil}
    /\ answer \subseteq RRs /\ authority \subseteq RRs /\ additional \subseteq RRs
    /\ res \in Rcodes
    /\ failed \in BOOLEAN

-----------------------------------------------------------------------------
\* The longest listed zone a name lies in, Nil for "".
FindZone(n) ==
    LET found == zones \cap Enclosing[n]
    IN  IF found = {} THEN Nil ELSE CHOOSE z \in found : found \subseteq Enclosing[z]

SOA == RR(zoneName, "SOA", Nil)
NSec == RR(qname, "NSEC", Nil)
location == Location[zoneName][currentQName]
currentRecord == db[location]

\* The RRs of a section with one signature per RRset; no property is about the
\* signatures, and that one cannot be made (and is left out) is not modelled.
Sign(rrs) == rrs \cup {RR(rr.owner, "RRSIG", rr.type) : rr \in rrs}

\* Everything after the loop: the DNSSEC tail and the response.
Finish(ans, auth, add, r) ==
    LET signed == do /\ dnssec
        denial == signed /\ (r = "NameError" \/ (r = "Success" /\ ans = {}))
        S(rrs) == IF signed THEN Sign(rrs) ELSE rrs
    IN  /\ answer' = S(ans)
        /\ authority' = S(auth \cup (IF denial THEN {NSec} ELSE {}))
        /\ additional' = S(add)
        /\ res' = IF signed /\ r = "NameError" THEN "Success" ELSE r
        /\ pc' = "done"

\* Faulty variants of AnswerWith: flattening forgotten; no SOA for an empty answer.
AnswerWithUnflattened(type, data, r) ==
    Finish(answer \cup {RR(currentQName, type, d) : d \in data},
           IF data = {} /\ r = "Success" THEN {SOA} ELSE authority, additional, r)
AnswerWithoutSOA(type, data, r) ==
    LET owner == IF flat THEN qname ELSE currentQName
    IN  Finish(answer \cup {RR(owner, type, d) : d \in data}, authority, additional, r)

\* What the branches of the type switch share: append the answer, and the SOA
\* when there is none.  With flattening the answer is about the question's name.
AnswerWith(type, data, r) ==
    LET owner == IF flat THEN qname ELSE currentQName
    IN  Finish(answer \cup {RR(owner, type, d) : d \in data},
               IF data = {} /\ r = "Success" THEN {SOA} ELSE authority, additional, r)

-----------------------------------------------------------------------------
\* A question arrives; no zone for it is NOTAUTH.
HandleRequest(n, t, d) ==
    /\ pc = "idle"
    /\ qname' = n /\ qtype' = t /\ do' = d /\ currentQName' = n
    /\ zoneName' = FindZone(n)
    /\ IF FindZone(n) = Nil
       THEN pc' = "done" /\ res' = "NotAuth"
       ELSE pc' = "zone" /\ res' = "Success"
    /\ UNCHANGED <<environment, flat, dnssec, loopCount, target, up,
                   answer, authority, additional, failed>>

LoadZone ==
    /\ pc = "zone"
    /\ \/ /\ Fails
          /\ failed' = TRUE /\ res' = "ServFail" /\ pc' = "done"
          /\ UNCHANGED <<flat, dnssec>>
       \/ /\ flat' \in BOOLEAN /\ dnssec' \in BOOLEAN
          /\ pc' = "loop"
          /\ UNCHANGED <<failed, res>>
    /\ UNCHANGED <<environment, question, zoneName, cursor,
                   answer, authority, additional>>

\* The head of the loop: the cap, the zone of the current name, its location.
LoopHead(cap, increment) ==
    /\ pc = "loop"
    /\ IF loopCount > cap
       THEN /\ Finish({}, authority, additional, "ServFail")
            /\ UNCHANGED loopCount
       ELSE /\ loopCount' = loopCount + increment
            /\ CASE FindZone(currentQName) # zoneName ->
                      Finish(answer, authority, additional, "Success")
                 [] FindZone(currentQName) = zoneName /\ location = Nil ->
                      Finish(answer, {SOA}, additional, "NameError")
                 [] OTHER -> pc' = "load" /\ UNCHANGED sections
    /\ UNCHANGED <<environment, question, zoneVars, currentQName, target, up, failed>>

\* Faulty variants of FindLocation: the cap is one too low; the count is never
\* increased.
FindLocationEarly == LoopHead(MaxLoop - 1, 1)
FindLocationUncounted == LoopHead(MaxLoop, 0)

FindLocation == LoopHead(MaxLoop, 1)

\* Faulty variant of LoadFails: the record that did not load is taken for an empty one.
LoadFailsQuietly ==
    /\ pc = "load" /\ Fails
    /\ failed' = TRUE
    /\ Finish(answer, {SOA}, additional, "Success")
    /\ UNCHANGED <<environment, question, zoneVars, cursor>>

\* LoadLocation returns nil.
LoadFails ==
    /\ pc = "load" /\ Fails
    /\ failed' = TRUE
    /\ Finish(answer, authority, additional, "ServFail")
    /\ UNCHANGED <<environment, question, zoneVars, cursor>>

IsAlias == currentRecord.cname # Nil /\ qtype # "CNAME"
IsDelegated == currentRecord.ns # {} /\ currentQName # zoneName

\* Go on with the target of a CNAME.  Without flattening the CNAME is part of
\* the answer; with it, only one that leaves the zone is, under the question's name.
FollowCNAME ==
    /\ pc = "load" /\ IsAlias
    /\ LET host == currentRecord.cname
           out == flat /\ FindZone(host) # zoneName
       IN  IF out
           THEN /\ Finish(answer \cup {RR(qname, "CNAME", Fqdn[host])},
                          authority, additional, res)
                /\ UNCHANGED currentQName
           ELSE /\ answer' = IF flat THEN answer
                             ELSE answer \cup {RR(currentQName, "CNAME", Fqdn[host])}
                /\ currentQName' = Fqdn[host]
                /\ pc' = "loop"
                /\ UNCHANGED <<authority, additional, res>>
    /\ UNCHANGED <<environment, question, zoneVars, loopCount, target, up, failed>>

\* The hosts of the record's name servers; NS() skips the empty ones.
Hosts == currentRecord.ns \ {Nil}

\* Refer to the name servers of a delegated name, with the glue that loads: a
\* glue record that does not is skipped.
Delegation ==
    /\ pc = "load" /\ ~IsAlias /\ IsDelegated
    /\ LET inside == {h \in Hosts : Location[zoneName][h] # Nil}
       IN  \E loaded \in (IF Fails THEN SUBSET inside ELSE {inside}) :
              /\ Finish(answer,
                        authority \cup {RR(currentQName, "NS", Fqdn[h]) : h \in Hosts},
                        additional \cup {RR(h, "A", Location[zoneName][h]) :
                            h \in {g \in loaded : db[Location[zoneName][g]].a = "some"}}, res)
              /\ failed' = (failed \/ loaded # inside)
    /\ UNCHANGED <<environment, question, zoneVars, cursor>>

\* The type switch, but for the types that need more lookups.
Answer ==
    /\ pc = "load" /\ ~IsAlias /\ ~IsDelegated
    /\ \/ /\ qtype = "A" /\ (currentRecord.a # "none" \/ currentRecord.aname = Nil)
          /\ AnswerWith("A", IF currentRecord.a = "some" THEN {location} ELSE {}, res)
       \/ /\ qtype = "CNAME"
          /\ AnswerWith("CNAME", {Fqdn[h] : h \in {currentRecord.cname} \ {Nil}}, res)
       \/ /\ qtype = "NS"
          /\ AnswerWith("NS", {Fqdn[h] : h \in Hosts}, res)
       \/ /\ qtype = "TXT"
          /\ AnswerWith("TXT", IF currentRecord.txt THEN {location} ELSE {}, res)
       \/ /\ qtype = "CAA" /\ currentRecord.caa
          /\ AnswerWith("CAA", {location}, res)
       \/ /\ qtype = "SOA"
          /\ Finish(answer \cup {SOA}, authority, additional, res)
       \/ /\ qtype = "DNSKEY"
          /\ IF dnssec
             THEN Finish(answer \cup {RR(zoneName, "DNSKEY", Nil)}, authority, additional, res)
             ELSE Finish(answer, {SOA}, additional, res)
       \/ /\ qtype \notin {"A", "CNAME", "NS", "TXT", "CAA", "SOA", "DNSKEY"}
          /\ Finish({}, {SOA}, additional, "NotImplemented")
    /\ UNCHANGED <<environment, question, zoneVars, cursor, failed>>

\* FindANAME begins: an address question at a name with an ANAME and no addresses.
StartANAME ==
    /\ pc = "load" /\ ~IsAlias /\ ~IsDelegated
    /\ qtype = "A" /\ currentRecord.a = "none" /\ currentRecord.aname # Nil
    /\ target' = currentRecord.aname /\ loopCount' = 0
    /\ pc' = "aname"
    /\ UNCHANGED <<environment, question, zoneVars, currentQName, up, sections, failed>>

\* One pass of FindANAME's loop: the cap, an upstream query for a name in no
\* zone, or the record of the name in whatever zone it is in now.
ANAMEStep(increment) ==
    /\ pc = "aname"
    /\ loopCount' = IF loopCount > MaxLoop THEN loopCount ELSE loopCount + increment
    /\ LET zn == FindZone(target)
           l == IF zn = Nil THEN Nil ELSE Location[zn][target]
           r == db[l]
       IN  \/ /\ loopCount > MaxLoop \/ (zn # Nil /\ l = Nil)
              /\ AnswerWith("A", {}, "ServFail")
              /\ UNCHANGED <<target, failed>>
           \/ /\ loopCount <= MaxLoop /\ (zn = Nil \/ l # Nil) /\ Fails
              /\ AnswerWith("A", {}, "ServFail")
              /\ failed' = TRUE
              /\ UNCHANGED target
           \/ /\ loopCount <= MaxLoop /\ zn = Nil
              /\ \E ips \in {{}, {target}} : AnswerWith("A", ips, "Success")
              /\ UNCHANGED <<target, failed>>
           \/ /\ loopCount <= MaxLoop /\ zn # Nil /\ l # Nil
              /\ \/ r.cname # Nil \/ (r.a = "none" /\ r.aname # Nil)
              /\ target' = IF r.cname # Nil THEN r.cname ELSE r.aname
              /\ UNCHANGED <<pc, sections, failed>>
           \/ /\ loopCount <= MaxLoop /\ zn # Nil /\ l # Nil
              /\ r.cname = Nil /\ (r.a # "none" \/ r.aname = Nil)
              /\ AnswerWith("A", IF r.a = "some" THEN {l} ELSE {}, "Success")
              /\ UNCHANGED <<target, failed>>
    /\ UNCHANGED <<environment, question, zoneVars, currentQName, up>>

\* Faulty variant of FindANAME: the count is never increased.
FindANAMEUncounted == ANAMEStep(0)

FindANAME == ANAMEStep(1)

\* FindCAA begins: the record itself has no CAA, and its zone object says where
\* the way goes up.
StartCAA ==
    /\ pc = "load" /\ ~IsAlias /\ ~IsDelegated
    /\ qtype = "CAA" /\ ~currentRecord.caa
    /\ target' = location
    /\ up' \in Ups
    /\ pc' = "caa"
    /\ UNCHANGED <<environment, question, zoneVars, loopCount, currentQName, sections, failed>>

\* One pass of FindCAA: up one label, at last the apex.  A location that is not
\* found and a record that does not load both end the search without an answer.
CAAStep(parent) ==
    /\ pc = "caa"
    /\ LET l == IF parent = Top THEN Location[zoneName][zoneName] ELSE parent
       IN  \/ /\ parent = Nil \/ (parent = Top /\ ~db[l].caa)
              /\ AnswerWith("CAA", {}, res)
              /\ UNCHANGED <<target, failed>>
           \/ /\ parent # Nil /\ Fails
              /\ AnswerWith("CAA", {}, res)
              /\ failed' = TRUE
              /\ UNCHANGED target
           \/ /\ parent # Nil /\ db[l].caa
              /\ AnswerWith("CAA", {l}, res)
              /\ UNCHANGED <<target, failed>>
           \/ /\ parent \notin {Nil, Top} /\ ~db[l].caa
              /\ target' = l
              /\ UNCHANGED <<pc, sections, failed>>
    /\ UNCHANGED <<environment, question, zoneVars, loopCount, currentQName, up>>

\* Faulty variant of FindCAA: the apex is not looked at.
FindCAANoApex == CAAStep(IF up[target] = Top THEN Nil ELSE up[target])

FindCAA == CAAStep(up[target])

-----------------------------------------------------------------------------
\* LoadZones installs another list (ZoneRegistry).
SwapZones ==
    /\ pc \notin {"idle", "done"}
    /\ swaps + writes < MaxChanges /\ swaps' = swaps + 1
    /\ zones' \in SUBSET ZoneNames
    /\ UNCHANGED <<db, writes, pc, question, zoneVars, cursor, sections, failed>>

\* A record is rewritten in redis and the caches let the new contents in (ZoneData).
WriteRecord(l) ==
    /\ pc \notin {"idle", "done"}
    /\ swaps + writes < MaxChanges /\ writes' = writes + 1
    /\ \E r \in Shapes[l] : db' = [db EXCEPT ![l] = r]
    /\ UNCHANGED <<zones, swaps, pc, question, zoneVars, cursor, sections, failed>>

Step == \/ LoadZone \/ FindLocation \/ LoadFails \/ FollowCNAME \/ Delegation
        \/ Answer \/ StartANAME \/ FindANAME \/ StartCAA \/ FindCAA

Ask == \E n \in Names, t \in QTypes, d \in BOOLEAN : HandleRequest(n, t, d)

Init ==
    /\ zones \in SUBSET ZoneNames
    /\ db \in {f \in [Labels -> UNION {Shapes[l] : l \in Labels}] :
                  \A l \in Labels : f[l] \in Shapes[l]}
    /\ swaps = 0 /\ writes = 0 /\ pc = "idle"
    /\ qname = Nil /\ qtype = Nil /\ do = FALSE
    /\ zoneName = Nil /\ flat = FALSE /\ dnssec = FALSE
    /\ loopCount = 0 /\ currentQName = Nil /\ target = Nil /\ up = Nil
    /\ answer = {} /\ authority = {} /\ additional = {} /\ res = "Success"
    /\ failed = FALSE

Next == Ask \/ Step \/ SwapZones \/ \E l \in Labels : WriteRecord(l)

Spec == Init /\ [][Next]_vars
FairSpec == Spec /\ WF_vars(Step)

-----------------------------------------------------------------------------
\* Nothing changed and nothing failed while the request was handled.
Undisturbed == swaps + writes = 0 /\ ~failed

\* The answer hangs together however the zone changes under the request: every
\* RR is about the question's name or about the target of a CNAME in the same
\* answer, and with flattening about the question's name only.  (HandleRequest
\* answers SOA and DNSKEY questions with the RR of the apex at any name.)
AnswerIsConnected ==
    \A rr \in answer : rr.type \notin {"SOA", "DNSKEY", "RRSIG"} =>
        \/ rr.owner = qname
        \/ ~flat /\ \E c \in answer : c.type = "CNAME" /\ c.data = rr.owner

\* A negative answer can be cached: NXDOMAIN, and an empty NOERROR answer that
\* is no referral, carry the zone's SOA.  There are two exceptions.  A request
\* during which LoadZones took its zone off the list: FindZone then disagrees
\* with itself and the loop ends with nothing (src/handler/handler.go:205).  And
\* a delegation to servers without hosts only: NS() skips them all, and the
\* referral names nobody (src/handler/handler.go:242,458).
NegativeAnswerHasSOA ==
    pc = "done" /\ res \in {"Success", "NameError"} /\ answer = {} /\ swaps = 0 =>
        \/ \E rr \in authority : rr = SOA \/ rr.type = "NS"
        \/ ~IsAlias /\ IsDelegated /\ Hosts = {}

\* The authority section refers to every name server of the current name.
IsReferral ==
    /\ ~IsAlias /\ IsDelegated
    /\ SOA \notin authority
    /\ \A h \in Hosts : RR(currentQName, "NS", Fqdn[h]) \in authority

\* A load or an upstream query that fails is reported as SERVFAIL by the loop of
\* HandleRequest and by FindANAME, or it was the load of a glue record, and then
\* the response is still the referral, to every server, that the delegation
\* calls for (the XXX at src/handler/handler.go:247 leaves it so): a failure is
\* never turned into a denial or into another answer.  The exception is FindCAA,
\* which does turn it into a denial, as the TODO where it is called admits.
FailureIsReported ==
    pc = "done" /\ failed /\ qtype # "CAA" =>
        res = "ServFail" \/ (res = "Success" /\ IsReferral)

\* What a failure would have to mean for a client to tell: SERVFAIL, always.  The
\* code does not promise it: a glue record that does not load and a failure in
\* FindCAA leave a NOERROR response (src/handler/handler.go:246-248,846-858).
EveryFailureIsReported == pc = "done" /\ failed => res = "ServFail"

\* The names from n on are all aliases inside the zone, for ever.
Unending(n) ==
    \E S \in SUBSET Names :
        /\ n \in S
        /\ \A m \in S :
              /\ FindZone(m) = zoneName /\ Location[zoneName][m] # Nil
              /\ LET host == db[Location[zoneName][m]].cname
                 IN  /\ host # Nil
                     /\ Fqdn[host] \in S
                     /\ flat => FindZone(host) = zoneName

\* The loop cap tells loops from chains: a question whose aliases never end
\* gets an empty SERVFAIL, and one whose aliases end gets none (ANAME apart, which
\* has a cap of its own).  The instance has no chain longer than the cap allows.
LoopsAreRefused ==
    pc = "done" /\ zoneName # Nil /\ qtype # "CNAME" /\ Undisturbed =>
        /\ Unending(qname) => res = "ServFail" /\ answer = {}
        /\ qtype # "A" /\ res = "ServFail" => Unending(qname)

\* A CAA question about an existing name was answered with nothing, and neither
\* by a referral nor by an alias out of the zone.
CAADenied ==
    /\ pc = "done" /\ zoneName # Nil /\ qtype = "CAA" /\ Undisturbed /\ res = "Success"
    /\ FindZone(currentQName) = zoneName /\ location # Nil
    /\ ~IsDelegated
    /\ ~\E rr \in answer : rr.type = "CAA" \/ (flat /\ rr.type = "CNAME")

apex == Location[zoneName][zoneName]

\* FindCAA's denial is true as far as the search goes: no location from the
\* question's up to where the search ended has a CAA, and neither has the apex,
\* unless the search ended below it because the zone object of the record has no
\* location for the parent (src/handler/handler.go:846-848).
CAADenialIsTrue ==
    CAADenied =>
        /\ \E S \in SUBSET Labels :
              /\ location \in S /\ target \in S
              /\ \A l \in S : ~db[l].caa /\ (up[l] \in Labels => up[l] \in S)
        /\ ~db[apex].caa \/ (target # apex /\ up[target] = Nil)

\* What a denial means to a certificate authority: the apex has no CAA.  It does
\* not hold: FindCAA gives up at a parent without a location of its own, an empty
\* non-terminal or one the record's old zone object does not know.
ApexCAAIsFound == CAADenied => ~db[apex].caa

\* Every request is answered: no chain of CNAMEs, ANAMEs or parent locations
\* keeps a goroutine for ever, loops and concurrent rewrites included.
EveryRequestIsAnswered == pc # "idle" ~> pc = "done"

\* What the test "cname flattening" says: intermediate CNAMEs are eliminated, so
\* the only CNAME a flattened answer shows points out of the zone.
FlatteningEliminatesAliases ==
    pc = "done" /\ flat /\ qtype # "CNAME" /\ swaps = 0 =>
        \A rr \in answer : rr.type = "CNAME" => FindZone(rr.data) # zoneName
=============================================================================
