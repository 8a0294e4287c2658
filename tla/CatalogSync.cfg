SPECIFICATION FairSpec
CONSTANTS
  Alien = Alien
  Brazil = Brazil
  Carrie = Carrie
  Duel = Duel
  Exhumed = Exhumed
  Fargo = Fargo
  Gattaca = Gattaca
  Heat = Heat
  Ikiru = Ikiru
  Scott = Scott
  Gilliam = Gilliam
  Ethan = Ethan
  Akira = Akira
  Popular = Popular
  TopRated = TopRated
  Film = {Alien, Brazil, Carrie, Duel, Exhumed, Fargo, Gattaca, Heat, Ikiru}
  Director = {Scott, Gilliam, Ethan, Akira}
  Credits <- CreditsOfFilm
  ZeroDirector = ZeroDirector
  Job = {Popular, TopRated}
  Admin = {a1}
  Listing <- ListingOfJob
  Undated = {Carrie}
  Misfit = {Heat}
  Misnamed = {Akira}
  Addable = {Alien}
  MaxFaults = 1
INVARIANTS
  SkippedForOnce
  AddsWaitEmptyHanded
  AnswersTrue
PROPERTIES
  GrowsByPages
  PagesGetIn
