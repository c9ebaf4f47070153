SPECIFICATION Spec
CONSTANTS
    mini = mini
    large = large
    exact = exact
    other = other
    prefix = prefix
    star = star
    Streams = {s1}
    Ids = {1, 2}
    Teams = {team}
    Models = {mini, large}
    Missing = Missing
    Patterns = {exact, other, prefix, star}
    Rows <- Kinds
    Class <- ClassOf
    Matches <- MatchOf
INVARIANT TypeOK
INVARIANT StatesAreDropped
PROPERTY MostSpecificEnforced
SYMMETRY Same
