----------------------------- MODULE MCEndpoint -----------------------------
(* Sixteen addresses.  The subnet of the defaults has the server at its first *)
(* host address and two more, the last the broadcast address; another subnet, *)
(* written with host bits set, ends with the address space.                   *)
EXTENDS Endpoint

ModelsOf(n) == << [id |-> "qwen", files |-> n], [id |-> "other", files |-> 1] >>
MCDefaults ==
  [ versions  |-> [release_tag |-> "b1"],
    models    |-> [default |-> "qwen", models |-> ModelsOf(1)],
    network   |-> [subnet |-> [addr |-> 8, bits |-> 2], server_address |-> 9,
                   listen_address |-> 9, port |-> 8080, listen_port |-> 51820],
    installer |-> [config_dir |-> ""] ]

\* The domain d is overridden with the fields f.
Sets(d, f) == [e \in {d} |-> f]

MCOverrides ==
  { <<>>,
    Sets("network", [server_address |-> 10, listen_address |-> 10]),
    Sets("network", [server_address |-> 10]),
    Sets("network", [server_address |-> NoAddr]),
    Sets("network", [server_address |-> Blank]),
    Sets("network", [server_address |-> 3, listen_address |-> 3]),
    Sets("network", [subnet |-> [addr |-> 14, bits |-> 2], server_address |-> 14, listen_address |-> 14]),
    Sets("network", [subnet |-> NoPrefix]),
    Sets("network", [port |-> 0]),
    Sets("network", [port |-> 9090]),
    Sets("network", [listen_port |-> 51821]),
    Sets("network", [listen_port |-> 0]),
    Sets("versions", Garbled),
    Sets("models", [models |-> ModelsOf(0)]),
    Sets("models", [default |-> "ghost"]),
    Sets("installer", [config_dir |-> "D:"]) }
=============================================================================
