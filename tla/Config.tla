------------------------------- MODULE Config -------------------------------
(***************************************************************************)
(* The settings (internal/config): the defaults built into the binary, one *)
(* optional override file per domain, merged field by field, completed and *)
(* validated at the start of every command.  Of each domain only the       *)
(* fields that Endpoint tells apart are here.                              *)
(***************************************************************************)
EXTENDS Addresses, Sequences

CONSTANTS
  Defaults,   \* configs/*.yaml: a record of fields for each domain
  UserDir     \* DefaultUserDir of the machine

Domains == {"versions", "models", "network", "installer"}

\* The empty string; NoAddr is any other that is no address.
Blank == -2

\* What network.yaml's fields hold, of those that are there: strings that parse or do
\* not, and numbers.
NetworkFields(f) ==
  /\ "subnet" \in DOMAIN f => f.subnet \in Prefixes \cup {NoPrefix}
  /\ \A k \in {"server_address", "listen_address"} \cap DOMAIN f :
       f[k] \in Addrs \cup {NoAddr, Blank}
  /\ \A k \in {"port", "listen_port"} \cap DOMAIN f : f[k] \in Int

ASSUME ConfigAssumption ==
  /\ DOMAIN Defaults = Domains
  /\ {"default", "models"} \subseteq DOMAIN Defaults.models
  /\ {"subnet", "server_address", "listen_address", "port", "listen_port"}
       \subseteq DOMAIN Defaults.network
  /\ NetworkFields(Defaults.network)
  /\ "config_dir" \in DOMAIN Defaults.installer

\* An override directory maps the domains it has a file for to the fields that
\* file sets, or to Garbled when it is not YAML of the right shape.
Garbled   == [garbled |-> TRUE]
Parses(o) == \A d \in DOMAIN o : o[d] # Garbled

\* yaml.Unmarshal over the defaults: a field that is not named stays, a list
\* that is named is replaced.
Over(f, g) == [k \in DOMAIN f \cup DOMAIN g |-> IF k \in DOMAIN f THEN f[k] ELSE g[k]]
Merge(o) == [d \in Domains |-> IF d \in DOMAIN o THEN Over(o[d], Defaults[d]) ELSE Defaults[d]]

resolveDefaults(c) ==
  [c EXCEPT !.installer.config_dir = IF @ = "" THEN UserDir ELSE @]

\* ModelRegistry.Find: the first entry with the id; NoEntry when there is none.
NoEntry == [id |-> "", files |-> -1]
Find(models, id) ==
  LET Here(i) == models[i].id = id
  IN IF \E i \in DOMAIN models : Here(i)
     THEN models[CHOOSE i \in DOMAIN models : Here(i) /\ \A j \in 1..(i - 1) : ~Here(j)]
     ELSE NoEntry

\* Required fields are there; whether they parse is for those who use them to find.
Validate(c) ==
  /\ c.models.default # ""
  /\ Find(c.models.models, c.models.default) # NoEntry
  /\ c.network.server_address # Blank
  /\ c.network.port # 0

Loads(o) == Parses(o) /\ Validate(resolveDefaults(Merge(o)))
Load(o)  == resolveDefaults(Merge(o))       \* when it Loads
=============================================================================
