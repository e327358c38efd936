----------------------------- MODULE MCIpFilter -----------------------------
(***************************************************************************)
(* Three addresses; a client that is here, elsewhere, or nowhere known.    *)
(***************************************************************************)
EXTENDS IpFilter

CONSTANTS here, there

Lists == [Ips -> {{}, {here}, {there}, {Unknown, there}}]
Somewhere == [k \in Ips |-> {}]
Plain == [filter |-> "none", country |-> Unknown, countries |-> Somewhere,
          asn |-> Unknown, asns |-> Somewhere, distances |-> [k \in Ips |-> 0]]

\* One list for one filter, two for "asn+country", distances for "location".
Places ==
    {Plain}
    \cup {[Plain EXCEPT !.filter = "country", !.country = c, !.countries = l] :
             c \in {here, Unknown, Nil}, l \in Lists}
    \cup {[Plain EXCEPT !.filter = "asn", !.asn = c, !.asns = l] :
             c \in {here, Unknown, Nil}, l \in Lists}
    \cup {[Plain EXCEPT !.filter = "asn+country", !.asn = n, !.asns = l,
                        !.country = c, !.countries = m] :
             n \in {here, Unknown}, c \in {here, Unknown},
             l \in [Ips -> {{}, {here}, {there}}], m \in [Ips -> {{}, {here}, {there}}]}
    \cup {[Plain EXCEPT !.filter = "location", !.country = c, !.distances = d] :
             c \in {here, Nil}, d \in [Ips -> 1 .. 3]}

\* From below down_count, which was raised after the checks, up to up_count.
Down == -1
Seen == {-2, -1, 0, 2, 3}

Ways == [order: {"weighted", "rr", "none"}, count: {"single", "multi"},
         weights: [Ips -> 0 .. 2], now: {0, 1, 4}]
=============================================================================
