----------------------------- MODULE Catalogue -----------------------------
(***************************************************************************)
(* The objects in NetBox that every record refers to, and what the client  *)
(* remembers of them (src/app/backends/netbox/client.py: bootstrap and     *)
(* _ensure).                                                               *)
(*                                                                         *)
(* bootstrap() runs at the start of every cycle and returns at once when   *)
(* it has come to its end before.  _ensure remembers the object it found   *)
(* or created, and just as well that there is none: because the create was *)
(* rejected and swallowed by write(), or because this is a dry run.        *)
(*                                                                         *)
(* Abstracted: the custom fields are one item, as are the tags, the three  *)
(* roles, and the placeholder types; a discovered model stands for its     *)
(* manufacturer, device type and platform.                                 *)
(***************************************************************************)
EXTENDS Integers, FiniteSets, Sequences, SequencesExt

CONSTANTS
    Model,        \* models that SNMP identities name
    NoModel

Order == <<"fields", "tag", "site", "role", "maker", "type", "pool">>
Basics == Range(Order)
Item == Basics \cup Model

ASSUME CatalogueAssumption ==
    /\ IsFiniteSet(Model) /\ NoModel \notin Model
    /\ Model \cap Basics = {}

VARIABLES
    objects,      \* the items that exist in NetBox
    cache,        \* NetBoxClient._cache
    bootstrapped, \* NetBoxClient._bootstrapped
    dry,          \* NetBoxClient.dry_run
    clean         \* history: this process has lost no create of an item

clientVars == <<cache, bootstrapped, dry, clean>>

CatalogueTypeOK ==
    /\ objects \subseteq Item
    /\ cache \in [Item -> {"unknown", "none", "id"}]
    /\ bootstrapped \in BOOLEAN /\ dry \in BOOLEAN /\ clean \in BOOLEAN

Empty == [i \in Item |-> "unknown"]

CatalogueInit ==
    /\ objects = {}
    /\ cache = Empty /\ bootstrapped = FALSE
    /\ dry \in BOOLEAN /\ clean = TRUE

Known(w, item) == w.cache[item] = "id"

\* Variant used as a mutant: creates without asking; NetBox rejects a duplicate.
Ensured_Blind(w, item, lost) ==
    IF w.cache[item] # "unknown" THEN w
    ELSE IF w.dry \/ item \in lost \cup w.objects THEN [w EXCEPT !.cache[item] = "none"]
    ELSE [w EXCEPT !.cache[item] = "id", !.objects = @ \cup {item}, !.wrote = TRUE]

\* _ensure, and ensure_manufacturer, ensure_device_type and ensure_platform with it
Ensured(w, item, lost) ==
    IF w.cache[item] # "unknown" THEN w
    ELSE IF item \in w.objects THEN [w EXCEPT !.cache[item] = "id"]
    ELSE IF w.dry \/ item \in lost THEN [w EXCEPT !.cache[item] = "none"]
    ELSE [w EXCEPT !.cache[item] = "id", !.objects = @ \cup {item}, !.wrote = TRUE]

\* _ensure_custom_fields looks for its fields whenever it runs and remembers nothing.
WithFields(w, lost) ==
    IF "fields" \in w.objects \cup lost \/ w.dry THEN w
    ELSE [w EXCEPT !.objects = @ \cup {"fields"}, !.wrote = TRUE]

\* One of the things bootstrap() ensures; the types need their manufacturer.
Provided(w, item, lost) ==
    CASE item = "fields" -> WithFields(w, lost)
      [] item = "type" /\ ~Known(w, "maker") -> w
      [] OTHER -> Ensured(w, item, lost)

\* A loop over places, the lowest first.
InOrder(turn(_, _), base, S) == MapThenFoldSet(turn, base, LAMBDA k : k, Max, S)

WithCatalogue(w, lost, upto) ==
    InOrder(LAMBDA k, v : Provided(v, Order[k], lost), w, 1 .. upto)

\* bootstrap(), of which the first `upto` items are done when a read fails.
Bootstrapped(w, lost, upto) ==
    IF w.bootstrapped THEN w
    ELSE [WithCatalogue(w, lost, upto) EXCEPT !.bootstrapped = (upto = Len(Order))]
=============================================================================
