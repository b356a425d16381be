------------------------------ MODULE PageFetch ------------------------------
(***************************************************************************)
(* One fetchUrl of the live crawler (lib/crawler/fetcher.ts): each hop is  *)
(* validated, its host resolved (lib/security/ssrf.ts), the connection     *)
(* pinned to the address that was validated, and the response followed if  *)
(* it redirects or read in chunks under a size limit and the hop's timer.  *)
(* The site and the resolver answer anything, and differently every time.  *)
(*                                                                         *)
(* A URL is a record: what its syntax lets the guard see, and its host.    *)
(* An IPv4 address is its four octets, an IPv6 one its eight groups.       *)
(***************************************************************************)
EXTENDS Naturals, Sequences, FiniteSets

CONSTANTS
  Urls,           \* records [scheme, port, credentials, host]
  Literals,       \* hosts that are addresses: a function from them to the address
  LocalNames,     \* hosts whose name is local or internal
  DnsAnswers,     \* sequences of addresses a resolver may answer
  FirstParty,     \* hosts configured to get the first-party token
  MaxRedirects, MaxSize,
  Chunks          \* sizes of a chunk of a body

Octet == 0..255
Group == 0..65535
Addresses == [1..4 -> Octet] \cup [1..8 -> Group]

FetchOK ==
  /\ \A host \in DOMAIN Literals : Literals[host] \in Addresses
  /\ DnsAnswers \subseteq Seq(Addresses)
  /\ DOMAIN Literals \subseteq {u.host : u \in Urls} /\ LocalNames \subseteq {u.host : u \in Urls}
  /\ MaxRedirects \in Nat /\ MaxSize \in Nat /\ Chunks \subseteq Nat \ {0}

VARIABLES
  url,       \* currentUrl
  hops,      \* redirectCount
  pinned,    \* the validated address, or <<>> between hops
  contact,   \* the address, host and token of the hop's connection
  body,      \* chunks kept of the body, and the bytes that were counted
  step,      \* checking, connecting, reading, done
  result     \* the failure category, or "ok"

fetchVars == <<url, hops, pinned, contact, body, step, result>>

NoContact == [address |-> <<>>, host |-> "none", token |-> FALSE]
NoBody == [kept |-> <<>>, counted |-> 0]

FetchInit ==
  /\ url \in Urls
  /\ hops = 0 /\ pinned = <<>> /\ contact = NoContact /\ body = NoBody
  /\ step = "checking" /\ result = "none"

----------------------------------------------------------------------------
(* lib/security/ssrf.ts                                                    *)

BlockedV4(ip) ==
  LET a == ip[1] b == ip[2] c == ip[3] IN
  \/ a \in {0, 10, 127} \/ a >= 224
  \/ a = 100 /\ b \in 64..127
  \/ a = 169 /\ b = 254
  \/ a = 172 /\ b \in 16..31
  \/ a = 192 /\ b \in {0, 168}
  \/ a = 192 /\ <<b, c>> \in {<<31, 196>>, <<52, 193>>, <<88, 99>>, <<175, 48>>}
  \/ a = 198 /\ (b \in {18, 19} \/ <<b, c>> = <<51, 100>>)
  \/ a = 203 /\ <<b, c>> = <<0, 113>>

HighByte(group) == group \div 256
EmbeddedV4(ip) == <<ip[7] \div 256, ip[7] % 256, ip[8] \div 256, ip[8] % 256>>
CarriesV4(ip) ==
  \/ \A i \in 1..5 : ip[i] = 0 /\ ip[6] \in {0, 65535}               \* mapped, compatible
  \/ ip[1] = 100 /\ ip[2] = 65435 /\ \A i \in 3..6 : ip[i] = 0       \* NAT64
BlockedV6(ip) ==
  \/ \A i \in 1..7 : ip[i] = 0 /\ ip[8] \in {0, 1}                   \* unspecified, loopback
  \/ HighByte(ip[1]) \in {252, 253, 254, 255}
  \/ ip[1] = 8193 /\ ip[2] \in {0, 3512}                             \* Teredo, documentation
  \/ ip[1] = 8194                                                    \* 6to4
  \/ ip[1] = 256 /\ ip[2] = 0                                        \* discard-only
  \/ CarriesV4(ip) /\ BlockedV4(EmbeddedV4(ip))

Blocked(ip) == IF Len(ip) = 4 THEN BlockedV4(ip) ELSE BlockedV6(ip)

Syntactic(u) ==
  /\ u.scheme \in {"http", "https"} /\ ~u.port /\ ~u.credentials
  /\ u.host \notin LocalNames

AnyAcceptable(records) == \E i \in DOMAIN records : ~Blocked(records[i])
\* the answers of a lookup that validateUrlForScan accepts
Acceptable(records) == records # <<>> /\ \A i \in DOMAIN records : ~Blocked(records[i])

Lookup(u) == IF u.host \in DOMAIN Literals THEN {<<Literals[u.host]>>} ELSE DnsAnswers

----------------------------------------------------------------------------
Ends(category) == step' = "done" /\ result' = category

\* while (redirectCount <= maxRedirects)
RedirectLimit ==
  /\ step = "checking" /\ hops > MaxRedirects
  /\ Ends("redirect_limit")
  /\ UNCHANGED <<url, hops, pinned, contact, body>>

\* an empty answer stands for a lookup that fails too
Validate ==
  /\ step = "checking" /\ hops <= MaxRedirects
  /\ \E records \in Lookup(url) :
       IF Syntactic(url) /\ Acceptable(records)
       THEN pinned' = records[1] /\ step' = "connecting" /\ UNCHANGED result
       ELSE Ends("blocked_by_safety_policy") /\ UNCHANGED pinned
  /\ UNCHANGED <<url, hops, contact, body>>

\* firstPartyAuditHeaders
TokenOfHops(host) == host \in FirstParty \/ contact.token
Token(host) == host \in FirstParty

\* requestPinnedUrl: the lookup of the request answers the pinned address
ConnectTo ==
  /\ step = "connecting"
  /\ contact' = [address |-> pinned, host |-> url.host, token |-> Token(url.host)]
  /\ step' = "responding"
  /\ UNCHANGED <<url, hops, pinned, body, result>>

\* a status 301, 302, 303, 307 or 308
Redirected ==
  /\ step = "responding"
  /\ \E target \in Urls :
       IF target.credentials
       THEN Ends("invalid_redirect") /\ UNCHANGED <<url, hops, pinned>>
       ELSE /\ url' = target /\ hops' = hops + 1 /\ pinned' = <<>>
            /\ step' = "checking" /\ UNCHANGED result
  /\ UNCHANGED <<contact, body>>
\* without a Location, or with one that is not a URL
BadRedirect ==
  /\ step = "responding" /\ Ends("invalid_redirect")
  /\ UNCHANGED <<url, hops, pinned, contact, body>>

\* the declared length is over the limit, or the encoding is not known
Unreadable ==
  /\ step = "responding"
  /\ \/ Ends("response_size_limit") /\ body' = [body EXCEPT !.counted = MaxSize]
     \/ Ends("response_body_unavailable") /\ UNCHANGED body
  /\ UNCHANGED <<url, hops, pinned, contact>>
Readable ==
  /\ step = "responding" /\ step' = "reading"
  /\ UNCHANGED <<url, hops, pinned, contact, body, result>>

\* readBodyWithLimit, a chunk at a time: counted first, kept if within the limit
ExceedsOne(counted) == counted - body.counted > MaxSize
Exceeds(counted) == counted > MaxSize
ReadChunk ==
  /\ step = "reading"
  /\ \E chunk \in Chunks :
       IF Exceeds(body.counted + chunk)
       THEN /\ body' = [kept |-> <<>>, counted |-> body.counted + chunk]
            /\ Ends("response_size_limit")
       ELSE /\ body' = [kept |-> Append(body.kept, chunk), counted |-> body.counted + chunk]
            /\ UNCHANGED <<step, result>>
  /\ UNCHANGED <<url, hops, pinned, contact>>
BodyEnds ==
  /\ step = "reading" /\ Ends("ok")
  /\ UNCHANGED <<url, hops, pinned, contact, body>>

\* the hop's timer, or the network: while connecting it is told apart, while the
\* body is read readHttpResponse reports a body that could not be read
TimedOut ==
  /\ \/ step \in {"connecting", "responding"} /\ (Ends("timeout") \/ Ends("network"))
     \/ step = "reading" /\ Ends("response_body_unavailable")
  /\ body' = [body EXCEPT !.kept = <<>>]
  /\ UNCHANGED <<url, hops, pinned, contact>>

FetchNext ==
  \/ RedirectLimit \/ Validate \/ ConnectTo \/ Redirected \/ BadRedirect
  \/ Unreadable \/ Readable \/ ReadChunk \/ BodyEnds \/ TimedOut

FetchSpec == FetchInit /\ [][FetchNext]_fetchVars

----------------------------------------------------------------------------
\* The address lies in the block with this prefix length, its octets or groups being
\* so many bits wide; the blocks are those of the registries of special-purpose addresses
\* that reach no public host: this host, loopback, private, shared, link-local,
\* unique-local, benchmarking, documentation, discard-only and multicast ones, and
\* IPv4's reserved class.
InBlock(ip, block, width) ==
  LET whole == block.bits \div width
      rest == block.bits % width
      low == 2^(width - rest) IN
  /\ \A i \in 1..whole : ip[i] = block.network[i]
  /\ rest = 0 \/ ip[whole + 1] \div low = block.network[whole + 1] \div low
SpecialPurpose ==
  { [network |-> <<0, 0, 0, 0>>, bits |-> 8], [network |-> <<10, 0, 0, 0>>, bits |-> 8],
    [network |-> <<100, 64, 0, 0>>, bits |-> 10], [network |-> <<127, 0, 0, 0>>, bits |-> 8],
    [network |-> <<169, 254, 0, 0>>, bits |-> 16], [network |-> <<172, 16, 0, 0>>, bits |-> 12],
    [network |-> <<192, 0, 0, 0>>, bits |-> 24],
    [network |-> <<192, 0, 2, 0>>, bits |-> 24], [network |-> <<192, 168, 0, 0>>, bits |-> 16],
    [network |-> <<198, 18, 0, 0>>, bits |-> 15], [network |-> <<198, 51, 100, 0>>, bits |-> 24],
    [network |-> <<203, 0, 113, 0>>, bits |-> 24], [network |-> <<224, 0, 0, 0>>, bits |-> 3] }
SpecialPurposeV6 ==
  { [network |-> <<0, 0, 0, 0, 0, 0, 0, 0>>, bits |-> 128],
    [network |-> <<0, 0, 0, 0, 0, 0, 0, 1>>, bits |-> 128],
    [network |-> <<256, 0, 0, 0, 0, 0, 0, 0>>, bits |-> 64],
    [network |-> <<8193, 3512, 0, 0, 0, 0, 0, 0>>, bits |-> 32],
    [network |-> <<64512, 0, 0, 0, 0, 0, 0, 0>>, bits |-> 7],
    [network |-> <<65152, 0, 0, 0, 0, 0, 0, 0>>, bits |-> 10],
    [network |-> <<65280, 0, 0, 0, 0, 0, 0, 0>>, bits |-> 8] }
ReachableV4(ip) == \A block \in SpecialPurpose : ~InBlock(ip, block, 8)
Reachable(ip) ==
  IF Len(ip) = 4 THEN ReachableV4(ip)
  ELSE /\ \A block \in SpecialPurposeV6 : ~InBlock(ip, block, 16)
       /\ CarriesV4(ip) => ReachableV4(EmbeddedV4(ip))

SizeOf(chunks) == LET Sum[i \in 0..Len(chunks)] == IF i = 0 THEN 0 ELSE Sum[i - 1] + chunks[i]
                  IN  Sum[Len(chunks)]

\* Wherever redirects and changing DNS answers lead, a connection is only made to
\* a publicly reachable address, the first-party token goes to no other host
\* ("a token can never follow a redirect to an unrelated site"), and no more of a
\* body is kept than the limit.
FetchContained ==
  /\ contact # NoContact => Reachable(contact.address)
  /\ contact.token => contact.host \in FirstParty
  /\ SizeOf(body.kept) <= MaxSize
=============================================================================
