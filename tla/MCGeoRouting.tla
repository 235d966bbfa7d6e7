---------------------------- MODULE MCGeoRouting ----------------------------
(* Instances of GeoRouting for TLC. *)
EXTENDS GeoRouting, TLC

CONSTANTS r1, r2, r3, c1, c2, t1, t2

(* The poles, places at latitudes 0 and about 37 and 53 degrees, and some  *)
(* that only their longitudes tell apart                                   *)
Many == {<<<<0, 5>>, <<5, 0>>>>, <<<<5, 0>>, <<-5, 0>>>>, <<<<4, 3>>, <<0, 5>>>>,
         <<<<3, -4>>, <<-4, 3>>>>, <<<<5, 0>>, <<5, 0>>>>, Nowhere}
Few == {<<<<5, 0>>, <<5, 0>>>>, <<<<0, -5>>, <<3, 4>>>>, Nowhere}
MostPlaces == (r1 :> Many) @@ (c1 :> Many) @@ (r2 :> Few) @@ (c2 :> Few \ {Nowhere})
  @@ (r3 :> Few \ {Nowhere})
=============================================================================
