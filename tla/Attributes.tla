---- MODULE Attributes ----
(***************************************************************************)
(* The attributes of a canonical event: a map from keys to the values the  *)
(* code tells apart, as the plugin builds it and the daemon reads it.      *)
(***************************************************************************)

Nothing == [key \in {} |-> ""]

(* One map with the keys that another adds. *)
With(attributes, more) ==
  [key \in DOMAIN attributes \union DOMAIN more |->
     IF key \in DOMAIN attributes THEN attributes[key] ELSE more[key]]

Has(attributes, key, value) == key \in DOMAIN attributes /\ attributes[key] = value
Yes(attributes, key) == Has(attributes, key, "yes")

====
