----------------------------- MODULE MCDelivery -----------------------------
(* Small instances of Delivery for TLC. *)
EXTENDS Delivery

Plain    == <<>>
Browser  == << <<"gzip", 10>>, <<"br", 10>> >>
GzipOnly == << <<"br", 0>>, <<"gzip", 5>>, <<"*", 10>> >>
Strict   == << <<"br", 0>>, <<"br", 5>>, <<"gzip", 8>>, <<"identity", 0>> >>
Broken   == << <<"br", Malformed>>, <<"*", 0>> >>

Scene(url, headers, versions, codings) ==
  [url |-> url, headers |-> headers, versions |-> versions, codings |-> codings]

AliasAndPinned ==
  { Scene(0, {Browser}, {1, 2}, {"identity", "br"}),
    Scene(1, {Plain, Browser}, {1}, {"identity", "br"}),
    Scene(1, {GzipOnly, Strict}, {1}, {"identity", "br", "gzip"}),
    Scene(1, {Broken}, {1}, {"identity", "br"}) }
=============================================================================
