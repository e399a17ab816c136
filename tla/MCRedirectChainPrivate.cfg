CONSTANTS
    Hosts = {h1, h2}
    Pages = {p1, p2}
    MaxLimit <- MCMaxLimit
    MaxTries <- MCMaxTries

SYMMETRY Symmetry

SPECIFICATION Spec

INVARIANT
    AllowedRedirectsFollowed
