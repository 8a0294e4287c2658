--------------------------- MODULE MCCatalogSync ---------------------------
(* Nine films and four directors for CatalogSync: the two lists share      *)
(* films, in opposite orders; Alien has two directors, Exhumed none, on a  *)
(* page that it shares with Gattaca, Carrie has no date, Heat a title too  *)
(* long, and Ikiru a director whose name is.                               *)
EXTENDS CatalogSync

CONSTANTS Alien, Brazil, Carrie, Duel, Exhumed, Fargo, Gattaca, Heat, Ikiru, Scott, Gilliam,
          Ethan, Akira, Popular, TopRated

CreditsOfFilm ==
  [f \in Film |-> CASE f = Alien -> <<Scott, Ethan>>
                   [] f \in {Duel, Fargo} -> <<Scott>>
                   [] f = Exhumed -> <<>>
                   [] f = Ikiru -> <<Akira>>
                   [] OTHER -> <<Gilliam>>]

ListingOfJob ==
  [j \in Job |-> IF j = Popular THEN <<<<Alien, Brazil, Duel>>, <<Gattaca, Exhumed>>, <<Fargo>>>>
                 ELSE <<<<Brazil, Alien>>, <<Heat, Duel>>, <<Carrie, Ikiru>>>>]
=============================================================================
