------------------------------- MODULE MCGeoIp2 -------------------------------
(* Instances of GeoIp2 for TLC. *)
EXTENDS GeoIp2

CONSTANTS
  t1, t2,
  Yes   \* what a response says instead of TRUE: it can be told from a text

(* Two bits for IPv4 addresses, four for IPv6 *)
SomeAddresses == {<<0, 0>>, <<1, 1>>, <<0, 0, 1, 0>>, <<1, 0, 0, 1>>}

FrenchFirst == <<"fr", "en">>

Denmark == [iso_code |-> "DK", geoname_id |-> "denmark", confidence |-> "90",
            is_in_european_union |-> Yes,
            names |-> [en |-> "Denmark", fr |-> "Danemark"], later |-> "unknown"]

(* A response that says everything, one that says little, one of each for  *)
(* the flat models, and one that says nothing *)
SomeResponses ==
  [full |->
     [continent |-> [code |-> "EU", geoname_id |-> "europe", names |-> [en |-> "Europe"]],
      country |-> Denmark,
      registered_country |-> [iso_code |-> "SE", is_in_european_union |-> Yes],
      represented_country |-> [type |-> "military"] @@ Denmark,
      city |-> [geoname_id |-> "odense", confidence |-> "25", names |-> [en |-> "Odense"]],
      location |-> [latitude |-> "55.4", longitude |-> "10.4", time_zone |-> "CET",
                    accuracy_radius |-> "20", average_income |-> "1",
                    metro_code |-> "2", population_density |-> "3"],
      maxmind |-> [queries_remaining |-> "7"],
      postal |-> [code |-> "5000", confidence |-> "40"],
      subdivisions |-> <<[iso_code |-> "83", geoname_id |-> "south"],
                         [iso_code |-> "461", confidence |-> "50",
                          names |-> [fr |-> "Odense-ville"]]>>,
      traits |-> [isp |-> "an isp", is_satellite_provider |-> Yes, user_type |-> "school",
                  network |-> [ip_address |-> <<1, 0, 1, 0>>, prefix_len |-> 2]]],
   little |-> [country |-> [names |-> [de |-> "Schweden"]],
               traits |-> [domain |-> "example.se", is_tor_exit_node |-> Yes]],
   flat |->
     [is_anonymous |-> Yes, is_public_proxy |-> Yes, connection_type |-> "Cable/DSL",
      domain |-> "example.dk", isp |-> "an isp", organization |-> "org",
      autonomous_system_number |-> "64500", mobile_country_code |-> "238",
      autonomous_system_organization |-> "an as", later |-> "unknown"],
   nothing |-> Empty]

Database(words, v, data) ==
  [type |-> words, ip_version |-> v, mapped |-> v = 6, data |-> data]

(* Networks of IPv4 addresses, of IPv6 addresses with the zeros in front   *)
(* of IPv4 ones, without those zeros, and one larger than they are         *)
d :> e == [x \in {d} |-> e]
Halves(a, b) == <<0>> :> a @@ <<1, 0>> :> b
BehindZeros(a, b) == <<0, 0, 0>> :> a @@ <<1>> :> b
NoZeros(a, b) == <<1, 0>> :> a @@ <<1, 1, 1>> :> b
AroundZeros(a, b) == <<0>> :> a @@ <<1, 0>> :> b

SomeFiles ==
  {NoDatabase,
   Database(<<"GeoLite2", "City">>, 6, BehindZeros("little", "nothing")),
   Database(<<"GeoIP2", "Country">>, 4, Halves("little", "nothing")),
   Database(<<"GeoIP2", "Enterprise">>, 6, AroundZeros("nothing", "little")),
   Database(<<"GeoIP2", "Anonymous", "IP">>, 4, Halves("flat", "flat")),
   Database(<<"GeoLite2", "ASN">>, 6, NoZeros("flat", "nothing")),
   Database(<<"GeoIP2", "Connection", "Type">>, 4, Halves("nothing", "flat")),
   Database(<<"GeoIP2", "Domain">>, 6, AroundZeros("flat", "nothing")),
   Database(<<"GeoIP2", "ISP">>, 6, BehindZeros("flat", "nothing"))}

Object(content, code) == [kind |-> "object", content |-> content, code |-> code]
Other(kind, code) == [kind |-> kind, code |-> code]
Says(status, body) == [status |-> status, type |-> "json", body |-> body]

SomeAnswers ==
  {Says(200, Object("full", None)), Says(200, Object("little", None)),
   Says(200, Object(None, None)),
   Says(200, Other("list", None)), Says(200, Other("invalid", None)),
   [status |-> 200, type |-> "missing", body |-> Object("nothing", None)],
   Says(204, Other("empty", None)), Says(503, Object("nothing", "OUT_OF_QUERIES")),
   Says(400, Object("nothing", "IP_ADDRESS_INVALID")),
   Says(404, Object("nothing", "IP_ADDRESS_NOT_FOUND")),
   Says(401, Object("nothing", "LICENSE_KEY_REQUIRED")),
   Says(402, Object("nothing", "OUT_OF_QUERIES")),
   Says(403, Object("nothing", "PERMISSION_REQUIRED")),
   Says(404, Object("nothing", None)), Says(400, Other("text", "IP_ADDRESS_INVALID")),
   Says(499, Other("null", None)), Says(404, Other("empty", None)),
   Says(402, Other("invalid", None)),
   [status |-> 403, type |-> "other", body |-> Object("nothing", "PERMISSION_REQUIRED")]}
=============================================================================
