--------------------------------- MODULE MCNft ---------------------------------
(* An instance of Nft for TLC: words of 24 bits, pictures of 2x2 pixels.     *)
EXTENDS Nft
================================================================================
