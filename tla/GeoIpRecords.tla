----------------------------- MODULE GeoIpRecords -----------------------------
(***************************************************************************)
(* The data classes of geoip2: records.py and models.py.  A response, of   *)
(* a database or of the web service, is a function from the names in it to *)
(* values; a part of it, "city" or "traits", is such a function again.  A  *)
(* constructor takes what it knows by name, puts a default for what is not *)
(* there, and swallows the rest ("**_").                                   *)
(*                                                                         *)
(* An address is the sequence of its bits.                                 *)
(***************************************************************************)
EXTENDS Integers, Sequences

CONSTANT None

(* What both functions have, and what the first has where both have it: the *)
(* operator of the module TLC, which the provers do not know.              *)
f @@ g == [k \in DOMAIN f \cup DOMAIN g |-> IF k \in DOMAIN f THEN f[k] ELSE g[k]]

Empty == [key \in {} |-> None]
Get(raw, key, default) == IF key \in DOMAIN raw THEN raw[key] ELSE default

(* Attributes that are None, or False, unless the response says otherwise *)
Nones(attributes) == [a \in attributes |-> None]
Falses(attributes) == [a \in attributes |-> FALSE]

Keywords(raw, defaults) == [a \in DOMAIN defaults |-> Get(raw, a, defaults[a])]

(* ipaddress.ip_network(f"{ip}/{n}", False) *)
IpNetwork(ip, n) == [bits |-> Len(ip), prefix |-> SubSeq(ip, 1, n)]
InNetwork(ip, net) ==
  /\ Len(ip) = net.bits
  /\ SubSeq(ip, 1, Len(net.prefix)) = net.prefix

-----------------------------------------------------------------------------
(* records.py *)

PlaceRecord(locales, names) ==
  [locales |-> IF locales = None THEN <<"en">> ELSE locales,
   names |-> IF names = None THEN Empty ELSE names]

Place(locales, raw, defaults) ==
  PlaceRecord(locales, Get(raw, "names", None)) @@ Keywords(raw, defaults)

(* PlaceRecord.name *)
Name(place) ==
  LET named(i) == place.locales[i] \in DOMAIN place.names IN
  IF \E i \in DOMAIN place.locales : named(i)
    THEN place.names[place.locales[CHOOSE i \in DOMAIN place.locales :
                       named(i) /\ \A j \in 1..i - 1 : ~ named(j)]]
    ELSE None

City(locales, raw) == Place(locales, raw, Nones({"confidence", "geoname_id"}))
Continent(locales, raw) == Place(locales, raw, Nones({"code", "geoname_id"}))

CountryInit(locales, confidence, geoname_id, in_union, iso_code, names) ==
  PlaceRecord(locales, names) @@
  [confidence |-> confidence, geoname_id |-> geoname_id,
   is_in_european_union |-> in_union, iso_code |-> iso_code]

CountryDefaults ==
  Nones({"confidence", "geoname_id", "iso_code", "names"})
    @@ Falses({"is_in_european_union"})

Country(locales, raw) ==
  LET k == Keywords(raw, CountryDefaults) IN
  CountryInit(locales, k.confidence, k.geoname_id, k.is_in_european_union,
              k.iso_code, k.names)

(* Mistaken: two arguments change places. *)
SwappedArguments(locales, raw) ==
  LET k == Keywords(raw, CountryDefaults @@ Nones({"type"})) IN
  [type |-> k.type] @@
  CountryInit(locales, k.confidence, k.geoname_id, k.iso_code,
              k.is_in_european_union, k.names)

(* Passes its arguments on by position. *)
RepresentedCountry(locales, raw) ==
  LET k == Keywords(raw, CountryDefaults @@ Nones({"type"})) IN
  [type |-> k.type] @@
  CountryInit(locales, k.confidence, k.geoname_id, k.is_in_european_union,
              k.iso_code, k.names)

Location(raw) ==
  Keywords(raw, Nones({"average_income", "accuracy_radius", "latitude", "longitude",
                       "metro_code", "population_density", "time_zone"}))
MaxMind(raw) == Keywords(raw, Nones({"queries_remaining"}))
Postal(raw) == Keywords(raw, Nones({"code", "confidence"}))

Subdivision(locales, raw) ==
  Place(locales, raw, Nones({"confidence", "geoname_id", "iso_code"}))
Subdivisions(locales, raws) == [i \in DOMAIN raws |-> Subdivision(locales, raws[i])]
MostSpecific(locales, subdivisions) ==
  IF subdivisions # <<>> THEN subdivisions[Len(subdivisions)]
                         ELSE Subdivision(locales, Empty)

TraitsDefaults ==
  Falses({"is_anonymous", "is_anonymous_proxy", "is_anonymous_vpn",
          "is_hosting_provider", "is_legitimate_proxy", "is_public_proxy",
          "is_residential_proxy", "is_satellite_provider", "is_tor_exit_node"}) @@
  Nones({"autonomous_system_number", "autonomous_system_organization",
         "connection_type", "domain", "isp", "ip_address", "mobile_country_code",
         "mobile_network_code", "organization", "static_ip_score", "user_count",
         "user_type"})

(* "network" is the attribute _network, "prefix_len" is _prefix_len.  The  *)
(* web service sends the network, as an address and the prefix's length.   *)
Traits(raw) ==
  LET known == Keywords(raw, TraitsDefaults @@ Nones({"network", "prefix_len"})) IN
  [known EXCEPT !.network =
     IF @ = None THEN None ELSE IpNetwork(@.ip_address, @.prefix_len)]

(* The property "network" of Traits: computed once and kept.               *)
TraitsNetwork(x) ==
  IF x.network # None THEN x.network
  ELSE IF x.ip_address = None \/ x.prefix_len = None THEN None
  ELSE IpNetwork(x.ip_address, x.prefix_len)

-----------------------------------------------------------------------------
(* models.py *)

CountryModel(raw, locales) ==
  LET part(p) == Get(raw, p, Empty) IN
  [continent |-> Continent(locales, part("continent")),
   country |-> Country(locales, part("country")),
   registered_country |-> Country(locales, part("registered_country")),
   represented_country |-> RepresentedCountry(locales, part("represented_country")),
   maxmind |-> MaxMind(part("maxmind")),
   traits |-> Traits(part("traits"))]

CityModel(raw, locales) ==
  LET part(p) == Get(raw, p, Empty) IN
  CountryModel(raw, locales) @@
  [city |-> City(locales, part("city")),
   location |-> Location(part("location")),
   postal |-> Postal(part("postal")),
   subdivisions |-> Subdivisions(locales, Get(raw, "subdivisions", <<>>))]

InsightsModel(raw, locales) == CityModel(raw, locales)
EnterpriseModel(raw, locales) == CityModel(raw, locales)

(* The network of a flat model is never in the response. *)
SimpleModel(raw, defaults) ==
  [network |-> None] @@ Keywords(raw, Nones({"prefix_len", "ip_address"}) @@ defaults)

(* The property "network" of SimpleModel, as that of Traits *)
SimpleNetwork(x) == TraitsNetwork(x)

AnonymousIP(raw) ==
  SimpleModel(raw, Falses({"is_anonymous", "is_anonymous_vpn", "is_hosting_provider",
                           "is_public_proxy", "is_residential_proxy",
                           "is_tor_exit_node"}))
AsnDefaults ==
  Nones({"autonomous_system_number", "autonomous_system_organization"})
ASN(raw) == SimpleModel(raw, AsnDefaults)
ConnectionType(raw) == SimpleModel(raw, Nones({"connection_type"}))
Domain(raw) == SimpleModel(raw, Nones({"domain"}))
ISP(raw) ==
  SimpleModel(raw, AsnDefaults @@ Nones({"isp", "mobile_country_code",
                                         "mobile_network_code", "organization"}))

FlatClasses == {"AnonymousIP", "ASN", "ConnectionType", "Domain", "ISP"}
NestedClasses == {"Country", "City", "Insights", "Enterprise"}

(* What an instance of a class has: its attributes *)
Construct(class, raw, locales) ==
  CASE class = "Country" -> CountryModel(raw, locales)
    [] class = "City" -> CityModel(raw, locales)
    [] class = "Insights" -> InsightsModel(raw, locales)
    [] class = "Enterprise" -> EnterpriseModel(raw, locales)
    [] class = "AnonymousIP" -> AnonymousIP(raw)
    [] class = "ASN" -> ASN(raw)
    [] class = "ConnectionType" -> ConnectionType(raw)
    [] class = "Domain" -> Domain(raw)
    [] class = "ISP" -> ISP(raw)
=============================================================================
