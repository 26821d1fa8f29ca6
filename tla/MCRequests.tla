----------------------------- MODULE MCRequests -----------------------------
(***************************************************************************)
(* Small sets of configurations, requests and options for Requests.        *)
(***************************************************************************)
EXTENDS Requests

Acme == Field("Acme", FALSE)
Fields == {Blank, Acme, Field("Acme", TRUE), Field("Other", FALSE), Field(Unfit, FALSE)}
Id(o, cn) == [o |-> o, cn |-> cn]
Ids == {Id(o, cn) : o \in Fields, cn \in {Blank, Acme, Field(Unfit, FALSE)}}

One(S) == {<<>>} \cup {<<x>> : x \in S}
Two(S) == One(S) \cup {<<x, y>> : x, y \in S}

DNSNames == {DNS(<<"a", "org">>, TRUE, "space"), DNS(<<"a", "org">>, FALSE, "dot"),
             DNS(<<"*", "a", "org">>, FALSE, "none"), DNS(<<"org">>, FALSE, "none"),
             DNS(<<"a", "org">>, FALSE, "dots"), DNS(<<"*">>, FALSE, "none")}
IPs == {IP("n", 1, FALSE), IP("n", 1, TRUE), IP("m", 1, TRUE), IP(Unfit, 1, FALSE)}
URIs == {URI(<<"s", "x">>, FALSE), URI(<<"s", "x">>, TRUE), URI(<<"s", Unfit>>, FALSE),
         URI(<<"", "x">>, FALSE)}
Emails == {Email("u", <<"a", "org">>, TRUE, TRUE), Email("u", <<"a", "org">>, FALSE, FALSE),
           Email("u", <<"org">>, FALSE, FALSE), Email("", <<"org">>, FALSE, FALSE)}

SANs(k, s) == [NoSANs EXCEPT ![k] = s]
Mixed(d, i) == [NoSANs EXCEPT !.dns = <<d>>, !.ip = <<i>>]
SomeSANs(P(_)) == {SANs("dns", s) : s \in P(DNSNames)} \cup {SANs("ip", s) : s \in P(IPs)}
    \cup {SANs("uri", s) : s \in P(URIs)} \cup {SANs("email", s) : s \in P(Emails)}
    \cup {Mixed(d, i) : d \in {DNS(<<"a", "org">>, TRUE, "space"), DNS(<<"org">>, FALSE, "none")},
                        i \in IPs}

Open == [profiles |-> <<>>, owner |-> Blank, required |-> Id(Blank, Blank),
         dns |-> <<>>, ip |-> <<>>, uri |-> <<>>, email |-> <<>>]
Definitions ==
    {Open, [Open EXCEPT !.profiles = <<"client", "client">>],
     [Open EXCEPT !.profiles = <<"server">>, !.owner = Field("Acme", TRUE)],
     [Open EXCEPT !.required = Id(Blank, Acme)],
     [Open EXCEPT !.required = Id(Field(Unfit, FALSE), Blank)],
     [Open EXCEPT !.dns = <<DNS(<<"a", "org">>, TRUE, "lead")>>, !.ip = <<"n">>],
     [Open EXCEPT !.dns = <<DNS(<<"*", "org">>, FALSE, "none")>>],
     [Open EXCEPT !.uri = <<URI(<<"s", "x">>, FALSE)>>,
                  !.email = <<DNS(<<"a", "org">>, TRUE, "space")>>],
     [Open EXCEPT !.uri = <<URI(<<"s">>, TRUE)>>, !.email = <<DNS(<<"a", "org">>, FALSE, "dots")>>]}

MCConfigs == {[identity |-> i, def |-> Open] : i \in Ids}
    \cup {[identity |-> Id(Acme, Blank), def |-> d] : d \in Definitions}
MCRequests == {[subject |-> i, sans |-> NoSANs] : i \in Ids}
    \cup {[subject |-> Id(Acme, Acme), sans |-> s] : s \in SomeSANs(Two)}
MCForeignCSRs == {[subject |-> r.subject, sans |-> r.sans, sound |-> TRUE] : r \in MCRequests}
    \cup {[subject |-> Id(Acme, Acme), sans |-> NoSANs, sound |-> FALSE]}
MCSignOptions ==
    LET Plainly == [profile |-> "client", subject |-> None, sans |-> None, more |-> None] IN
    {[Plainly EXCEPT !.profile = p] : p \in {"client", "server", "both", "other"}}
    \cup {[Plainly EXCEPT !.subject = i] : i \in Ids}
    \cup {[Plainly EXCEPT !.sans = s] : s \in SomeSANs(One)}
    \cup {[Plainly EXCEPT !.more = s] : s \in SomeSANs(One)}
    \cup {[Plainly EXCEPT !.sans = Mixed(DNS(<<"a", "org">>, FALSE, "dot"), IP("n", 1, TRUE)),
                          !.more = s] : s \in SomeSANs(One)}
=============================================================================
