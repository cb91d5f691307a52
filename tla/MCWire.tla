------------------------------ MODULE MCWire ------------------------------
(***************************************************************************)
(* A dialer that meets a compatible listener, itself, or a listener of     *)
(* other economics.                                                        *)
(***************************************************************************)
EXTENDS Wire

MCGreeting == [node_nonce |-> 1, protocol_version |-> 1, chain_id |-> 1, genesis_hash |-> 1,
               econ_hash |-> 1, pow_params_hash |-> 1]
MCGreetings == {[MCGreeting EXCEPT !.node_nonce = 2], MCGreeting,
                [MCGreeting EXCEPT !.node_nonce = 2, !.econ_hash = 2]}
=============================================================================
